---- MODULE Spec2Model ----
\* Citation lifecycle of OpenKL (src/openkl/citations.py): transient and
\* persisted citations, verification against the source file, the JSONL
\* index and the retention sweep.
EXTENDS Integers, Sequences, FiniteSets, TLC

VARIABLES
    now,           \* the wall clock, in seconds (datetime.now(timezone.utc))
    fs,            \* the source files: location -> file
    cwd,           \* the caller's working directory: "store" (~/.ok) or "work"
    held,          \* the TransientCitation object the caller holds, if any
    records,       \* ~/.ok/citations/<id>.json, one per id
    index_exists,  \* whether ~/.ok/cite_index.jsonl exists
    index,         \* its lines, in file order
    last,          \* the last operation called and what it returned
    unchanged,     \* ids (and "held") whose source files have not changed since
                   \* the content hash of their citation was computed
    steps,         \* number of operations and source-file changes so far
    calls          \* the calls in progress, one per concurrent caller

vars ==
    <<now, fs, cwd, held, records, index_exists, index, last, unchanged, steps,
      calls>>

-----------------------------------------------------------------------------
\* Bounds of the model.

MaxSteps == 3
MaxLen == 1
MaxJitter == 1
MaxIndexLines == 2

-----------------------------------------------------------------------------
\* Identifiers, paths and the collaborator's rows.

MemId == "m-20240101-aaaaaaaa"
ChunkId == "doc1#0"
BadId == "doc1"
MemHashId == "m-20240101-aaaaaaaa#0"
\* Ids citations are made for, and ids a caller may ask about.
Ids == {MemId, ChunkId}
AskedIds == Ids \cup {BadId}

\* What the graph collaborator answers to one call: whether it has the
\* MemoryNote / Chunk row of the id, and the Doc row of a chunk.
Rows == [found : BOOLEAN, doc : BOOLEAN]
\* The collaborator raises instead of answering (get_connection or
\* conn.execute fails).
CollaboratorRaises == [found |-> FALSE, doc |-> FALSE, raises |-> TRUE]
Raises(rows) == "raises" \in DOMAIN rows
AnyAnswer == Rows \cup {CollaboratorRaises}

\* citation_id.startswith("m-")
StartsWithM(id) == id \in {MemId, MemHashId}
\* "#" in citation_id
HasHash(id) == id \in {ChunkId, MemHashId}

AbsPath == "/home/u/.ok/store/normalized/doc1.ok.md"
RelPath == "memories/by_date/2024-01/m-20240101-aaaaaaaa.md"
UnknownPath == "unknown"
Paths == {AbsPath, RelPath}

\* Path(p).is_absolute()
IsAbsolute(p) == p = AbsPath

\* Locations of the file system a path can resolve to.
LocAbs == "/home/u/.ok/store/normalized/doc1.ok.md"
LocStoreRel == "/home/u/.ok/memories/by_date/2024-01/m-20240101-aaaaaaaa.md"
LocWorkRel == "/work/memories/by_date/2024-01/m-20240101-aaaaaaaa.md"
Locations == {LocAbs, LocStoreRel, LocWorkRel}

\* get_openkl_dir() / path: how PersistedCitation.verify and the memory branch
\* of make_citation_from_id resolve a path.
StoreResolve(p) ==
    IF IsAbsolute(p) THEN LocAbs
    ELSE IF p = RelPath THEN LocStoreRel
    ELSE "/home/u/.ok/unknown"

\* Path(path) used as is: a relative path is resolved by the operating system
\* against the working directory of the process.
CwdResolve(p, wd) ==
    IF IsAbsolute(p) THEN LocAbs
    ELSE IF wd = "store" THEN StoreResolve(p)
    ELSE IF p = RelPath THEN LocWorkRel
    ELSE "/work/unknown"

\* Bytes a source file is made of: carriage return and the letter a; a line
\* feed appears only in re-encoded text.
CR == "\\r"
LF == "\\n"
LetterA == "a"
Bytes == {CR, LetterA}

RECURSIVE SeqsUpTo(_)
SeqsUpTo(n) ==
    IF n = 0 THEN {<<>>}
    ELSE LET shorter == SeqsUpTo(n - 1)
         IN shorter \cup {Append(s, b) : s \in {t \in shorter : Len(t) = n - 1}, b \in Bytes}

Contents == SeqsUpTo(MaxLen)

Absent == [kind |-> "absent", bytes |-> <<>>]
File(bytes) == [kind |-> "file", bytes |-> bytes]
\* A path that exists and cannot be read: a directory, or a file the process
\* has no permission to read.
Unreadable == [kind |-> "unreadable", bytes |-> <<>>]

\* Path.exists(); nothing exists under a location that is not modelled
\* (the literal path "unknown").
Exists(files, loc) == loc \in Locations /\ files[loc].kind # "absent"
ReadBytes(files, loc) == files[loc].bytes
\* Whether path.read_bytes() / read_text() returns instead of raising OSError.
Readable(files, loc) == loc \in Locations /\ files[loc].kind = "file"

\* hashlib.sha256(bytes).hexdigest(): a collision-free digest of the exact
\* byte sequence, as a number >= 1. The sentinel "unknown" is no digest.
Unknown == 0 - 1
Digit(b) == IF b = LF THEN 0 ELSE IF b = CR THEN 1 ELSE 2
RECURSIVE Sha256(_)
Sha256(bytes) ==
    IF bytes = <<>> THEN 1
    ELSE Sha256(SubSeq(bytes, 1, Len(bytes) - 1)) * 3 + Digit(bytes[Len(bytes)])

\* Path.read_text(): decoding with universal newlines turns CR LF and a lone
\* CR into LF; str.encode() gives the bytes back.
RECURSIVE ReadTextEncode(_)
ReadTextEncode(bytes) ==
    IF bytes = <<>> THEN <<>>
    ELSE IF Head(bytes) = CR
         THEN IF Len(bytes) > 1 /\ bytes[2] = LF
              THEN <<LF>> \o ReadTextEncode(Tail(Tail(bytes)))
              ELSE <<LF>> \o ReadTextEncode(Tail(bytes))
         ELSE <<Head(bytes)>> \o ReadTextEncode(Tail(bytes))

\* The collaborator's rows: m.text / c.text and the chunk's d.path.
DbText == <<LetterA, LetterA>>
DbDocPath == AbsPath

-----------------------------------------------------------------------------
\* Record model.

RetentionClasses == {"temp", "standard", "durable", "pinned"}

TtlTemp == 3600
TtlStandard == 604800
TtlDurable == 2592000
TtlPinned == 0 - 1

\* Mutant of TtlMap: the temp class is given the standard time to live.
TtlMapTempAsStandard(rc) ==
    IF rc = "durable" THEN TtlDurable
    ELSE IF rc = "pinned" THEN TtlPinned
    ELSE TtlStandard

\* ttl_map.get(retention_class, 86400 * 7)
TtlMap(rc) ==
    IF rc = "temp" THEN TtlTemp
    ELSE IF rc = "standard" THEN TtlStandard
    ELSE IF rc = "durable" THEN TtlDurable
    ELSE IF rc = "pinned" THEN TtlPinned
    ELSE TtlStandard

\* Mutant of KeepOf: only the pinned class sets keep.
KeepOfPinnedOnly(rc) == rc = "pinned"

\* retention_class in ["durable", "pinned"]
KeepOf(rc) == rc \in {"durable", "pinned"}

NoTransient == [id |-> "none"]

TransientCitation(id, surface, path, sha, loc, quote, context) ==
    [id |-> id, surface |-> surface, path |-> path, sha256 |-> sha,
     loc |-> loc, quote |-> quote, context |-> context]

NoRecord == [file |-> "none"]
CorruptRecord == [file |-> "corrupt"]

PersistedCitation(id, type, path, sha, loc, quote, context, rc, tags, t) ==
    [file |-> "ok", schema_version |-> 1, type |-> type, id |-> id, path |-> path,
     sha256 |-> sha, loc |-> loc, quote |-> quote, context |-> context,
     source |-> <<>>, created_at |-> t, last_accessed_at |-> t,
     last_verified_at |-> t, status |-> "verified", retention_class |-> rc,
     tags |-> tags, rev |-> 1,
     history |-> <<[at |-> t, event |-> "created"]>>,
     ttl_seconds |-> TtlMap(rc), keep |-> KeepOf(rc)]

\* The keys of the dictionary to_dict builds, in the order it writes them.
Fields ==
    <<"schema_version", "type", "id", "path", "sha256", "loc", "quote", "context",
      "source", "created_at", "last_accessed_at", "last_verified_at", "status",
      "retention_class", "ttl_seconds", "keep", "tags", "rev", "history">>

\* Mutant of ToDict: the keep flag is left out of the dictionary.
ToDictNoKeep(c) ==
    LET keys == SelectSeq(Fields, LAMBDA k : k # "keep")
    IN [i \in 1..Len(keys) |-> <<keys[i], c[keys[i]]>>]

\* PersistedCitation.to_dict: the dictionary as its sequence of items.
ToDict(c) == [i \in 1..Len(Fields) |-> <<Fields[i], c[Fields[i]]>>]

\* The loop of from_dict: setattr for the first n items of data, in order.
RECURSIVE SetAttrs(_, _)
SetAttrs(data, n) ==
    IF n = 0 THEN [file |-> "ok"]
    ELSE (data[n][1] :> data[n][2]) @@ SetAttrs(data, n - 1)

\* PersistedCitation.from_dict
FromDict(data) == SetAttrs(data, Len(data))

\* The same dictionary with its items in another order.
Reorder(data, order) == [i \in 1..Len(data) |-> data[order[i]]]
Rotation(k) == [i \in 1..Len(Fields) |-> ((i + k - 1) % Len(Fields)) + 1]
Reversal == [i \in 1..Len(Fields) |-> Len(Fields) + 1 - i]
KeyOrders == {Rotation(k) : k \in 0..(Len(Fields) - 1)} \cup {Reversal}

\* Mutant of UpdateAccess: an access renews the citation's creation time.
UpdateAccessRenews(c, t) == [c EXCEPT !.last_accessed_at = t, !.created_at = t]

\* Mutant of UpdateAccess: the access time is not stamped.
UpdateAccessNone(c, t) == c

\* PersistedCitation.update_access
UpdateAccess(c, t) == [c EXCEPT !.last_accessed_at = t]

\* The try block of PersistedCitation.verify: the status it sets, or "raise"
\* when reading the file raises.
TryVerify(c, files) ==
    LET loc == StoreResolve(c.path)
    IN IF ~Exists(files, loc) THEN "orphan"
       ELSE IF c.sha256 = Unknown THEN "verified"
       ELSE IF ~Readable(files, loc) THEN "raise"
       ELSE IF Sha256(ReadBytes(files, loc)) # c.sha256 THEN "stale"
       ELSE "verified"

\* Mutant of VerifyStatus: a citation found orphan stays orphan.
VerifyStatusSticky(c, files) ==
    IF c.status = "orphan" \/ TryVerify(c, files) = "raise" THEN "orphan"
    ELSE TryVerify(c, files)

\* Mutant of VerifyStatus: the content hash is never compared.
VerifyStatusNoHash(c, files) ==
    IF ~Exists(files, StoreResolve(c.path)) THEN "orphan" ELSE "verified"

\* Mutant of VerifyStatus: the sentinel hash is compared like a digest.
VerifyStatusNoSentinel(c, files) ==
    LET loc == StoreResolve(c.path)
    IN IF ~Exists(files, loc) THEN "orphan"
       ELSE IF Sha256(ReadBytes(files, loc)) # c.sha256 THEN "stale"
       ELSE "verified"

\* Mutant of VerifyStatus: the except clause is missing.
VerifyStatusUncaught(c, files) == TryVerify(c, files)

\* The status PersistedCitation.verify computes for citation c; the except
\* clause turns any exception into orphan.
VerifyStatus(c, files) ==
    IF TryVerify(c, files) = "raise" THEN "orphan" ELSE TryVerify(c, files)

\* Mutant of Verify: last_verified_at is stamped whatever the outcome.
VerifyStampsAlways(c, files, t) ==
    [c EXCEPT !.status = VerifyStatus(c, files), !.last_verified_at = t]

\* Mutant of Verify: the status is left as it was stored.
VerifyKeepsStatus(c, files, t) ==
    IF VerifyStatus(c, files) = "verified" THEN [c EXCEPT !.last_verified_at = t] ELSE c

\* PersistedCitation.verify: the citation as verify leaves it; verify returns
\* true exactly when it reaches its last three lines.
Verify(c, files, t) ==
    LET st == VerifyStatus(c, files)
    IN IF st = "verified"
       THEN [c EXCEPT !.status = "verified", !.last_verified_at = t]
       ELSE [c EXCEPT !.status = st]

VerifyResult(c, files) == VerifyStatus(c, files) = "verified"

-----------------------------------------------------------------------------
\* Citation index.

\* Mutant of IndexEntry: every entry is written with status verified.
IndexEntryVerified(c) ==
    [kind |-> "entry", id |-> c.id, type |-> c.type, path |-> c.path,
     status |-> "verified", retention_class |-> c.retention_class,
     created_at |-> c.created_at, last_accessed_at |-> c.last_accessed_at]

\* The entry _update_cite_index builds for citation c.
IndexEntry(c) ==
    [kind |-> "entry", id |-> c.id, type |-> c.type, path |-> c.path,
     status |-> c.status, retention_class |-> c.retention_class,
     created_at |-> c.created_at, last_accessed_at |-> c.last_accessed_at]

\* Lines of the index file that are no index entry: text that is no JSON (or a
\* blank line), a JSON value that is no object, an object without "id".
JunkLine == [kind |-> "junk"]
NonObjLine == [kind |-> "nonobj"]
NoIdLine == [kind |-> "noid"]

HasNonObj(lines) == \E i \in 1..Len(lines) : lines[i].kind = "nonobj"

\* Mutant of KeepLine: the index is appended to without dropping the old entry.
KeepLineAlways(line, id) == line.kind \in {"noid", "entry"}

\* Mutant of KeepLine: the rewrite keeps no entry but the new one.
KeepLineNever(line, id) == FALSE

\* entry.get("id") != citation.id, over the lines json.loads accepts.
KeepLine(line, id) ==
    \/ line.kind = "noid"
    \/ line.kind = "entry" /\ line.id # id

\* Mutant of UpdateCiteIndex: the index file is left as it is.
UpdateCiteIndexNoop(exists, lines, c) ==
    [raised |-> FALSE, exists |-> exists, lines |-> lines]

\* Mutant of UpdateCiteIndex: the new entry is appended to the file as it is.
UpdateCiteIndexAppendOnly(exists, lines, c) ==
    [raised |-> FALSE, exists |-> TRUE,
     lines |-> Append(IF exists THEN lines ELSE <<>>, IndexEntry(c))]

\* CitationManager._update_cite_index: [raised, exists, lines] of the index
\* file afterwards. entry.get on a JSON value that is no object raises before
\* the file is opened for writing.
UpdateCiteIndex(exists, lines, c) ==
    IF exists /\ HasNonObj(lines)
    THEN [raised |-> TRUE, exists |-> exists, lines |-> lines]
    ELSE [raised |-> FALSE, exists |-> TRUE,
          lines |-> Append(SelectSeq(IF exists THEN lines ELSE <<>>,
                                     LAMBDA l : KeepLine(l, c.id)),
                           IndexEntry(c))]

-----------------------------------------------------------------------------
\* Operations. Each is one call run to completion.

Result(op, id, arg, ret, raised) ==
    [op |-> op, id |-> id, arg |-> arg, ret |-> ret, raised |-> raised,
     rep |-> (last.op = op /\ last.id = id /\ ~last.raised)]

Quotes == {<<LetterA>>}
CharLoc(start, end) == [kind |-> "char", start |-> start, end |-> end]
NoContext == <<>>
NoTags == <<>>
PyNone == [py |-> "None"]

\* CitationManager.create_transient_citation
CreateTransientCitation(id, surface, path, quote, loc) ==
    /\ LET at == CwdResolve(path, cwd)
           sha == IF Exists(fs, at) THEN Sha256(ReadBytes(fs, at)) ELSE Unknown
       IN IF Exists(fs, at) /\ ~Readable(fs, at)
          THEN /\ last' = Result("create_transient", id, path, "OSError", TRUE)
               /\ UNCHANGED <<held, unchanged>>
          ELSE /\ held' = TransientCitation(id, surface, path, sha, loc, quote,
                                            NoContext)
               /\ last' = Result("create_transient", id, path, sha, FALSE)
               /\ unchanged' = unchanged \cup {"held"}
    /\ steps' = steps + 1
    /\ calls' = calls
    /\ UNCHANGED <<now, fs, cwd, records, index_exists, index>>

\* Mutant of CiteType: the shape of the id is looked at before the surface.
CiteTypeHashFirst(t) ==
    IF HasHash(t.id) THEN "chunk"
    ELSE IF t.surface = "memory" THEN "memory"
    ELSE "doc"

\* make_citation: the type of the persisted citation.
CiteType(t) ==
    IF t.surface = "memory" THEN "memory"
    ELSE IF HasHash(t.id) THEN "chunk"
    ELSE "doc"

\* Mutant of Promote: the content hash of the transient citation is not
\* carried over.
PromoteUnknownHash(t, rc, tags, at) ==
    PersistedCitation(t.id, CiteType(t), t.path, Unknown, t.loc, t.quote,
                      t.context, rc, tags, at)

\* make_citation: the PersistedCitation built from transient citation t.
Promote(t, rc, tags, at) ==
    PersistedCitation(t.id, CiteType(t), t.path, t.sha256, t.loc, t.quote,
                      t.context, rc, tags, at)

\* CitationManager.make_citation on transient citation t: the record file is
\* written, then the index is updated; if the index update raises, the record
\* file stays written.
MakeCitationEffect(t, rc, tags) ==
    LET persisted == Promote(t, rc, tags, now)
        upd == UpdateCiteIndex(index_exists, index, persisted)
    IN /\ records' = [records EXCEPT ![t.id] = persisted]
       /\ index_exists' = upd.exists
       /\ index' = upd.lines
       /\ last' = Result("make", t.id, rc, t.id, upd.raised)

MakeCitation(rc, tags) ==
    /\ held # NoTransient
    /\ MakeCitationEffect(held, rc, tags)
    /\ unchanged' = IF "held" \in unchanged THEN unchanged \cup {held.id}
                    ELSE unchanged \ {held.id}
    /\ steps' = steps + 1
    /\ calls' = calls
    /\ UNCHANGED <<now, fs, cwd, held>>

\* CitationManager.make_citation_from_id: the transient citation it rebuilds
\* from the collaborator's rows. The memory branch hashes the file under the
\* store directory; the chunk branch hashes the re-encoded text of the file at
\* the document path as the process resolves it.
MemoryTransient(id) ==
    LET at == StoreResolve(RelPath)
        found == Exists(fs, at)
        sha == IF found THEN Sha256(ReadBytes(fs, at)) ELSE Unknown
        text == IF found THEN ReadTextEncode(ReadBytes(fs, at)) ELSE DbText
    IN TransientCitation(id, "memory", RelPath, sha, CharLoc(0, Len(text)), text,
                         NoContext)

ChunkTransient(id, rows) ==
    LET path == IF rows.doc THEN DbDocPath ELSE UnknownPath
        at == CwdResolve(path, cwd)
        sha == IF path # UnknownPath /\ Exists(fs, at) /\ Readable(fs, at)
               THEN Sha256(ReadTextEncode(ReadBytes(fs, at)))
               ELSE Unknown
    IN TransientCitation(id, "store", path, sha, CharLoc(0, Len(DbText)), DbText,
                         NoContext)

\* Mutant of FromIdFound: the rows are not looked at.
FromIdFoundIgnoringRows(id, rows) == StartsWithM(id) \/ HasHash(id)

\* Whether make_citation_from_id finds the rows it needs.
FromIdFound(id, rows) == (StartsWithM(id) \/ HasHash(id)) /\ rows.found

FromIdTransient(id, rows) ==
    IF StartsWithM(id) THEN MemoryTransient(id) ELSE ChunkTransient(id, rows)

\* The ValueError make_citation_from_id raises, by its message: the row is
\* missing, or the id has neither shape.
FromIdError(id) ==
    IF StartsWithM(id) \/ HasHash(id) THEN "ValueError: not found"
    ELSE "ValueError: unknown citation ID format"

\* The memory branch reads the note's file outside any inner try: a file that
\* exists and cannot be read makes the call fail.
FromIdReadFails(id) ==
    /\ StartsWithM(id)
    /\ Exists(fs, StoreResolve(RelPath))
    /\ ~Readable(fs, StoreResolve(RelPath))

\* Every exception raised inside make_citation_from_id is re-raised as
\* ValueError.
FromIdFailure(id, rows) ==
    IF Raises(rows) THEN "ValueError: collaborator failed"
    ELSE IF ~FromIdFound(id, rows) THEN FromIdError(id)
    ELSE "ValueError: source unreadable"

MakeCitationFromId(id, rc, tags, rows) ==
    /\ IF FromIdFound(id, rows) /\ ~Raises(rows) /\ ~FromIdReadFails(id)
       THEN /\ MakeCitationEffect(FromIdTransient(id, rows), rc, tags)
            /\ unchanged' = unchanged \cup {id}
       ELSE /\ last' = Result("make", id, rc, FromIdFailure(id, rows), TRUE)
            /\ UNCHANGED <<records, index_exists, index, unchanged>>
    /\ steps' = steps + 1
    /\ calls' = calls
    /\ UNCHANGED <<now, fs, cwd, held>>

\* Mutant of CollaboratorHas: a collaborator that raises counts as an answer.
CollaboratorHasOrRaises(id, rows) ==
    (StartsWithM(id) \/ HasHash(id)) /\ (rows.found \/ Raises(rows))

\* Mutant of CollaboratorHas: the shape of the id is not looked at.
CollaboratorHasAnyShape(id, rows) == rows.found

\* The existence check verify_citation and open_citation fall back to for an
\* id without a record file; a collaborator that raises is answered like a
\* missing row by the except clause.
CollaboratorHas(id, rows) == (StartsWithM(id) \/ HasHash(id)) /\ rows.found

\* cite_file.exists() and whether its text loads; no caller in this model
\* makes a citation for BadId, so it has no record file.
RecordFile(id) == IF id \in Ids THEN records[id].file ELSE "none"

\* CitationManager.verify_citation
VerifyCitation(id, rows) ==
    /\ IF RecordFile(id) = "ok"
       THEN LET data == records[id]
                current == Verify(data, fs, now)
                upd == UpdateCiteIndex(index_exists, index, current)
            IN IF current # data
               THEN /\ records' = [records EXCEPT ![id] = current]
                    /\ index_exists' = upd.exists
                    /\ index' = upd.lines
                    /\ last' = Result("verify", id, "-",
                                      (~upd.raised) /\ VerifyResult(data, fs), FALSE)
               ELSE /\ last' = Result("verify", id, "-", VerifyResult(data, fs), FALSE)
                    /\ UNCHANGED <<records, index_exists, index>>
       ELSE /\ last' = Result("verify", id, "-",
                              IF RecordFile(id) = "corrupt" THEN FALSE
                              ELSE CollaboratorHas(id, rows), FALSE)
            /\ UNCHANGED <<records, index_exists, index>>
    /\ steps' = steps + 1
    /\ calls' = calls
    /\ UNCHANGED <<now, fs, cwd, held, unchanged>>

\* Mutant of TransientView: the view is reported as verified.
TransientViewVerified(id) ==
    [id |-> id, type |-> IF StartsWithM(id) THEN "memory" ELSE "chunk",
     text |-> DbText, status |-> "verified", quote |-> DbText]

\* The reduced view open_citation returns for an id without a record file.
TransientView(id) ==
    [id |-> id, type |-> IF StartsWithM(id) THEN "memory" ELSE "chunk",
     text |-> DbText, status |-> "transient", quote |-> DbText]

\* CitationManager.open_citation
OpenCitation(id, rows) ==
    /\ IF RecordFile(id) = "ok"
       THEN LET c == UpdateAccess(records[id], now)
            IN /\ records' = [records EXCEPT ![id] = c]
               /\ last' = Result("open", id, "-", c, FALSE)
       ELSE /\ last' = Result("open", id, "-",
                              IF RecordFile(id) = "none" /\ CollaboratorHas(id, rows)
                              THEN TransientView(id) ELSE PyNone, FALSE)
            /\ UNCHANGED records
    /\ steps' = steps + 1
    /\ calls' = calls
    /\ UNCHANGED <<now, fs, cwd, held, index_exists, index, unchanged>>

\* The lines of the index file json.loads accepts (list_citations and
\* gc_citations skip the others).
Parsed(lines) == SelectSeq(lines, LAMBDA l : l.kind # "junk")

LineId(l) == IF l.kind = "entry" THEN l.id ELSE "None"
LineStatus(l) == IF l.kind = "entry" THEN l.status ELSE "None"

\* The loop of list_citations: an id counts as seen once an entry of it was
\* appended.
RECURSIVE ListLoop(_, _, _, _)
ListLoop(lines, status, seen, acc) ==
    IF lines = <<>> THEN acc
    ELSE LET e == Head(lines)
         IN IF LineId(e) \notin seen /\ (status = "any" \/ LineStatus(e) = status)
            THEN ListLoop(Tail(lines), status, seen \cup {LineId(e)}, Append(acc, e))
            ELSE ListLoop(Tail(lines), status, seen, acc)

\* CitationManager.list_citations; status "any" stands for status=None.
ListCitations(status) ==
    /\ last' = IF ~index_exists THEN Result("list", "-", status, <<>>, FALSE)
               ELSE IF HasNonObj(index)
                    THEN Result("list", "-", status, "AttributeError", TRUE)
               ELSE Result("list", "-", status,
                           ListLoop(Parsed(index), status, {}, <<>>), FALSE)
    /\ steps' = steps + 1
    /\ calls' = calls
    /\ UNCHANGED <<now, fs, cwd, held, records, index_exists, index, unchanged>>

\* Mutant of Expired: no citation ever expires.
ExpiredNever(c, t) == FALSE

\* Mutant of Expired: a citation expires as soon as its age reaches the time
\* to live.
ExpiredAtTtl(c, t) == c.ttl_seconds > 0 /\ t - c.created_at >= c.ttl_seconds

\* gc_citations: whether a loaded citation is past its time to live at time t.
Expired(c, t) == c.ttl_seconds > 0 /\ t - c.created_at > c.ttl_seconds

\* Mutant of Protected: every citation is protected.
ProtectedAlways(c) == TRUE

\* Mutant of Protected: only the pinned class is protected.
ProtectedPinnedOnly(c) == c.retention_class = "pinned"

\* gc_citations: whether a loaded citation is protected from the sweep.
Protected(c) == c.keep \/ c.retention_class = "pinned"

NoStats == [expired |-> 0, orphaned |-> 0, kept |-> 0]

\* The loop of gc_citations over the parsed index lines, in file order. recs is
\* the record directory as the loop has left it so far. entry['id'] on a line
\* that is no object with an id raises out of the loop.
RECURSIVE GcLoop(_, _, _, _, _, _)
GcLoop(lines, recs, keptLines, stats, t, dry) ==
    IF lines = <<>>
    THEN [raised |-> FALSE, recs |-> recs, kept |-> keptLines, stats |-> stats]
    ELSE LET e == Head(lines)
             rest == Tail(lines)
         IN IF e.kind # "entry"
            THEN [raised |-> TRUE, recs |-> recs, kept |-> keptLines, stats |-> stats]
            ELSE IF recs[e.id].file # "ok"
            THEN GcLoop(rest, recs, keptLines,
                        [stats EXCEPT !.orphaned = @ + 1], t, dry)
            ELSE IF Protected(recs[e.id])
            THEN GcLoop(rest, recs, Append(keptLines, e),
                        [stats EXCEPT !.kept = @ + 1], t, dry)
            ELSE IF Expired(recs[e.id], t)
            THEN GcLoop(rest, IF dry THEN recs ELSE [recs EXCEPT ![e.id] = NoRecord],
                        keptLines, [stats EXCEPT !.expired = @ + 1], t, dry)
            ELSE GcLoop(rest, recs, Append(keptLines, e),
                        [stats EXCEPT !.kept = @ + 1], t, dry)

\* What gc_citations does to the index in exists/lines and the records in recs
\* at time t.
GcSweep(exists, lines, recs, t, dry) ==
    IF ~exists
    THEN [raised |-> FALSE, recs |-> recs, lines |-> lines, stats |-> NoStats]
    ELSE LET r == GcLoop(Parsed(lines), recs, <<>>, NoStats, t, dry)
         IN [raised |-> r.raised, recs |-> r.recs, stats |-> r.stats,
             lines |-> IF dry \/ r.raised THEN lines ELSE r.kept]

\* CitationManager.gc_citations
GcCitations(dry) ==
    /\ LET r == GcSweep(index_exists, index, records, now, dry)
       IN /\ records' = r.recs
          /\ index' = r.lines
          /\ last' = Result("gc", "-", dry, r.stats, r.raised)
          /\ unchanged' = {x \in unchanged : x = "held" \/ r.recs[x].file # "none"}
    /\ steps' = steps + 1
    /\ calls' = calls
    /\ UNCHANGED <<now, fs, cwd, held, index_exists>>

-----------------------------------------------------------------------------
\* Concurrent callers. Each caller runs one call, one file read, write or
\* unlink at a time; calls[t] holds the call's position and local variables,
\* and what it has observed of the other caller.

Threads == {1, 2}

Idle ==
    [op |-> "idle", pc |-> "idle", id |-> "-", c |-> NoRecord, lines |-> <<>>,
     kept |-> <<>>, stats |-> NoStats, before |-> <<>>, seen |-> {},
     valid |-> FALSE, pre |-> {}, unlinked |-> {}, after |-> FALSE]

AllIdle == \A t \in Threads : calls[t] = Idle
AtPc(t, op, pc) == calls[t].op \in op /\ calls[t].pc = pc
Done(t) == calls[t].pc = "done"
Other(t) == CHOOSE u \in Threads : u # t

\* The file as a caller finds it when it looks.
IndexNow == IF index_exists THEN index ELSE <<>>

\* The row the collaborator has of an id that is promoted.
FoundRow == [found |-> TRUE, doc |-> TRUE]

\* Whether id is indexed in lines, stored, and past its time to live without
\* being kept, as a caller finds it when its call begins.
ExpiredUnkept(lines, id) ==
    /\ RecordFile(id) = "ok"
    /\ Len(SelectSeq(lines, LAMBDA l : l.kind = "entry" /\ l.id = id)) = 1
    /\ ~records[id].keep /\ records[id].retention_class # "pinned"
    /\ records[id].ttl_seconds > 0
    /\ now - records[id].created_at > records[id].ttl_seconds

\* make_citation up to the construction of the PersistedCitation.
BeginMake(t, id, rc) ==
    /\ calls[t] = Idle
    /\ calls' = [calls EXCEPT ![t] =
                    [Idle EXCEPT !.op = "make", !.pc = "write_record", !.id = id,
                                 !.c = Promote(FromIdTransient(id, FoundRow), rc,
                                               NoTags, now),
                                 !.before = IndexNow]]
    /\ UNCHANGED <<now, fs, cwd, held, records, index_exists, index, last,
                   unchanged, steps>>

\* open_citation and verify_citation before their first file access.
BeginLookup(t, op, id) ==
    /\ calls[t] = Idle
    /\ calls' = [calls EXCEPT ![t] =
                    [Idle EXCEPT !.op = op, !.pc = "exists", !.id = id,
                                 !.before = IndexNow,
                                 !.pre = {x \in {id} : ExpiredUnkept(IndexNow, x)}]]
    /\ UNCHANGED <<now, fs, cwd, held, records, index_exists, index, last,
                   unchanged, steps>>

\* cite_file.exists() of open_citation and verify_citation; without a record
\* file the call ends with what the collaborator has.
LookExists(t, rows) ==
    /\ AtPc(t, {"open", "verify"}, "exists")
    /\ IF RecordFile(calls[t].id) # "none"
       THEN /\ calls' = [calls EXCEPT ![t].pc = "load"]
            /\ UNCHANGED last
       ELSE /\ calls' = [calls EXCEPT ![t].pc = "done"]
            /\ last' = IF calls[t].op = "open"
                       THEN Result("open", calls[t].id, "-",
                                   IF CollaboratorHas(calls[t].id, rows)
                                   THEN TransientView(calls[t].id) ELSE PyNone, FALSE)
                       ELSE Result("verify", calls[t].id, "-",
                                   CollaboratorHas(calls[t].id, rows), FALSE)
    /\ UNCHANGED <<now, fs, cwd, held, records, index_exists, index, unchanged, steps>>

\* json.loads(cite_file.read_text()) and the update of the loaded citation. A
\* file that is gone or does not load ends the call in its except clause;
\* verify_citation ends here too when verify changed nothing.
LoadRecord(t) ==
    /\ AtPc(t, {"open", "verify"}, "load")
    /\ LET id == calls[t].id
           op == calls[t].op
           data == records[id]
           current == IF op = "open" THEN UpdateAccess(data, now)
                      ELSE Verify(data, fs, now)
       IN IF RecordFile(id) # "ok"
          THEN /\ calls' = [calls EXCEPT ![t].pc = "done"]
               /\ last' = Result(op, id, "-", IF op = "open" THEN PyNone ELSE FALSE,
                                 FALSE)
          ELSE IF op = "verify" /\ current = data
          THEN /\ calls' = [calls EXCEPT ![t].pc = "done", ![t].c = current]
               /\ last' = Result(op, id, "-", VerifyResult(data, fs), FALSE)
          ELSE /\ calls' = [calls EXCEPT ![t].pc = "write_record", ![t].c = current,
                                         ![t].valid = VerifyResult(data, fs)]
               /\ UNCHANGED last
    /\ UNCHANGED <<now, fs, cwd, held, records, index_exists, index, unchanged, steps>>

\* cite_file.write_text(...) of make_citation, open_citation and
\* verify_citation; open_citation returns after it.
WriteRecord(t) ==
    /\ AtPc(t, {"make", "open", "verify"}, "write_record")
    /\ records' = [records EXCEPT ![calls[t].id] = calls[t].c]
    /\ calls' = [calls EXCEPT
                    ![t].pc = IF calls[t].op = "open" THEN "done" ELSE "read_index",
                    ![t].after = calls[t].id \in calls[Other(t)].unlinked]
    /\ last' = IF calls[t].op = "open"
               THEN Result("open", calls[t].id, "-", calls[t].c, FALSE)
               ELSE last
    /\ UNCHANGED <<now, fs, cwd, held, index_exists, index, unchanged, steps>>

\* Mutant of ReadIndexLines: the entries of the id are read like the others.
ReadIndexLinesUnfiltered(exists, lines, id) ==
    SelectSeq(IF exists THEN lines ELSE <<>>, LAMBDA l : l.kind # "junk")

\* _update_cite_index: the entries it reads from the index file.
ReadIndexLines(exists, lines, id) ==
    SelectSeq(IF exists THEN lines ELSE <<>>, LAMBDA l : KeepLine(l, id))

\* The read loop of _update_cite_index; a JSON value that is no object raises.
IndexRead(t) ==
    /\ AtPc(t, {"make", "verify"}, "read_index")
    /\ IF index_exists /\ HasNonObj(index)
       THEN /\ calls' = [calls EXCEPT ![t].pc = "done"]
            /\ last' = IF calls[t].op = "make"
                       THEN Result("make", calls[t].id, calls[t].c.retention_class,
                                   calls[t].id, TRUE)
                       ELSE Result("verify", calls[t].id, "-", FALSE, FALSE)
       ELSE /\ calls' = [calls EXCEPT
                           ![t].pc = "rewrite_index",
                           ![t].lines = ReadIndexLines(index_exists, index, calls[t].id),
                           ![t].seen = {u \in Threads : u # t /\ Done(u)}]
            /\ UNCHANGED last
    /\ UNCHANGED <<now, fs, cwd, held, records, index_exists, index, unchanged, steps>>

\* The write loop of _update_cite_index, and the return of the call.
IndexRewrite(t) ==
    /\ AtPc(t, {"make", "verify"}, "rewrite_index")
    /\ index_exists' = TRUE
    /\ index' = Append(calls[t].lines, IndexEntry(calls[t].c))
    /\ calls' = [calls EXCEPT ![t].pc = "done"]
    /\ last' = IF calls[t].op = "make"
               THEN Result("make", calls[t].id, calls[t].c.retention_class,
                           calls[t].id, FALSE)
               ELSE Result("verify", calls[t].id, "-", calls[t].valid, FALSE)
    /\ UNCHANGED <<now, fs, cwd, held, records, unchanged, steps>>

\* gc_citations(dry_run=False) before its first file access.
BeginGc(t) ==
    /\ calls[t] = Idle
    /\ calls' = [calls EXCEPT ![t] =
                    [Idle EXCEPT !.op = "gc", !.pc = "read_index",
                                 !.before = IndexNow,
                                 !.pre = {x \in Ids : ExpiredUnkept(IndexNow, x)}]]
    /\ UNCHANGED <<now, fs, cwd, held, records, index_exists, index, last,
                   unchanged, steps>>

\* The call returns: its statistics, or the exception of entry['id'].
GcReturn(t, stats, raised) == Result("gc", "-", FALSE, stats, raised)

\* gc_citations reads the index file.
GcReadIndex(t) ==
    /\ AtPc(t, {"gc"}, "read_index")
    /\ IF index_exists
       THEN /\ calls' = [calls EXCEPT ![t].pc = "entry", ![t].lines = Parsed(index)]
            /\ UNCHANGED last
       ELSE /\ calls' = [calls EXCEPT ![t].pc = "done"]
            /\ last' = GcReturn(t, NoStats, FALSE)
    /\ UNCHANGED <<now, fs, cwd, held, records, index_exists, index, unchanged, steps>>

\* The head of the loop over the entries, with cite_file.exists().
GcCheckExists(t) ==
    /\ AtPc(t, {"gc"}, "entry")
    /\ calls[t].lines # <<>>
    /\ LET e == Head(calls[t].lines)
       IN IF e.kind # "entry"
          THEN /\ calls' = [calls EXCEPT ![t].pc = "done"]
               /\ last' = GcReturn(t, calls[t].stats, TRUE)
          ELSE IF RecordFile(e.id) = "none"
          THEN /\ calls' = [calls EXCEPT ![t].lines = Tail(@),
                                         ![t].stats.orphaned = @ + 1]
               /\ UNCHANGED last
          ELSE /\ calls' = [calls EXCEPT ![t].pc = "load"]
               /\ UNCHANGED last
    /\ UNCHANGED <<now, fs, cwd, held, records, index_exists, index, unchanged, steps>>

\* json.loads(cite_file.read_text()) and the decision on the loaded citation.
GcLoadRecord(t) ==
    /\ AtPc(t, {"gc"}, "load")
    /\ LET e == Head(calls[t].lines)
       IN IF RecordFile(e.id) # "ok"
          THEN calls' = [calls EXCEPT ![t].pc = "entry", ![t].lines = Tail(@),
                                      ![t].stats.orphaned = @ + 1]
          ELSE IF Protected(records[e.id]) \/ ~Expired(records[e.id], now)
          THEN calls' = [calls EXCEPT ![t].pc = "entry", ![t].lines = Tail(@),
                                      ![t].kept = Append(@, e),
                                      ![t].stats.kept = @ + 1]
          ELSE calls' = [calls EXCEPT ![t].pc = "unlink"]
    /\ UNCHANGED <<now, fs, cwd, held, records, index_exists, index, last,
                   unchanged, steps>>

\* cite_file.unlink(); a file that is gone raises into the except clause.
GcUnlink(t) ==
    /\ AtPc(t, {"gc"}, "unlink")
    /\ LET e == Head(calls[t].lines)
       IN IF RecordFile(e.id) = "none"
          THEN /\ calls' = [calls EXCEPT ![t].pc = "entry", ![t].lines = Tail(@),
                                         ![t].stats.orphaned = @ + 1]
               /\ UNCHANGED records
          ELSE /\ records' = [records EXCEPT ![e.id] = NoRecord]
               /\ calls' = [calls EXCEPT ![t].pc = "entry", ![t].lines = Tail(@),
                                         ![t].stats.expired = @ + 1,
                                         ![t].unlinked = @ \cup {e.id}]
    /\ UNCHANGED <<now, fs, cwd, held, index_exists, index, last, unchanged, steps>>

\* gc_citations rewrites the index file with the entries it kept and returns.
GcRewriteIndex(t) ==
    /\ AtPc(t, {"gc"}, "entry")
    /\ calls[t].lines = <<>>
    /\ index' = calls[t].kept
    /\ calls' = [calls EXCEPT ![t].pc = "done"]
    /\ last' = GcReturn(t, calls[t].stats, FALSE)
    /\ UNCHANGED <<now, fs, cwd, held, records, index_exists, unchanged, steps>>

-----------------------------------------------------------------------------
\* Operations cut short by a failure of the process.

Interrupted(op, id) ==
    [op |-> op, id |-> id, arg |-> "-", ret |-> "-", raised |-> TRUE, rep |-> FALSE]

\* make_citation stopped after cite_file.write_text and before
\* _update_cite_index.
MakeCitationInterrupted(id, rc, rows) ==
    /\ FromIdFound(id, rows)
    /\ records' = [records EXCEPT ![id] = Promote(FromIdTransient(id, rows), rc, NoTags, now)]
    /\ last' = Interrupted("make_interrupted", id)
    /\ unchanged' = unchanged \cup {id}
    /\ steps' = steps + 1
    /\ calls' = calls
    /\ UNCHANGED <<now, fs, cwd, held, index_exists, index>>

\* gc_citations(dry_run=False) stopped after the loop has handled the first k
\* index entries and before the index file is rewritten.
GcInterrupted(k) ==
    /\ index_exists
    /\ k \in 1..Len(Parsed(index))
    /\ records' = GcLoop(SubSeq(Parsed(index), 1, k), records, <<>>, NoStats, now, FALSE).recs
    /\ unchanged' = {x \in unchanged : x = "held" \/ records'[x].file # "none"}
    /\ last' = Interrupted("gc_interrupted", "-")
    /\ steps' = steps + 1
    /\ calls' = calls
    /\ UNCHANGED <<now, fs, cwd, held, index_exists, index>>

-----------------------------------------------------------------------------
\* The environment: time passes and source files change between operations.

\* The instants the clock is read at: around the shortest time to live, and
\* past the longest.
Instants == {0} \cup {TtlTemp + d : d \in 0..MaxJitter} \cup {TtlDurable + MaxJitter}

Tick(t) ==
    /\ t > now
    /\ now' = t
    /\ steps' = steps + 1
    /\ calls' = calls
    /\ UNCHANGED <<fs, cwd, held, records, index_exists, index, last, unchanged>>

\* Time passes between two steps of a scripted run.
TickBetween(t) ==
    /\ t > now
    /\ now' = t
    /\ UNCHANGED <<fs, cwd, held, records, index_exists, index, last, unchanged, steps,
                   calls>>

EnvResult == [op |-> "env", id |-> "-", arg |-> "-", ret |-> "-", raised |-> FALSE,
              rep |-> FALSE]

\* Locations the process can resolve a path to from its working directory.
Reachable(wd) == IF wd = "store" THEN {LocAbs, LocStoreRel} ELSE Locations

WriteFile(loc, bytes) ==
    /\ fs[loc] # File(bytes)
    /\ fs' = [fs EXCEPT ![loc] = File(bytes)]
    /\ last' = EnvResult
    /\ unchanged' = {}
    /\ steps' = steps + 1
    /\ calls' = calls
    /\ UNCHANGED <<now, cwd, held, records, index_exists, index>>

DeleteFile(loc) ==
    /\ fs[loc] # Absent
    /\ fs' = [fs EXCEPT ![loc] = Absent]
    /\ last' = EnvResult
    /\ unchanged' = {}
    /\ steps' = steps + 1
    /\ calls' = calls
    /\ UNCHANGED <<now, cwd, held, records, index_exists, index>>

\* A byte is appended to an existing file.
AppendByte(loc, b) ==
    /\ fs[loc].kind = "file"
    /\ fs' = [fs EXCEPT ![loc] = File(Append(fs[loc].bytes, b))]
    /\ last' = EnvResult
    /\ unchanged' = {}
    /\ steps' = steps + 1
    /\ calls' = calls
    /\ UNCHANGED <<now, cwd, held, records, index_exists, index>>

\* A test fabricates the age of a record: created_at is set to d seconds ago
\* in the record file.
TwoHours == 2 * 3600
FabricateCreatedAt(id, d) ==
    /\ records[id].file = "ok"
    /\ records' = [records EXCEPT ![id].created_at = now - d]
    /\ last' = EnvResult
    /\ steps' = steps + 1
    /\ calls' = calls
    /\ UNCHANGED <<now, fs, cwd, held, index_exists, index, unchanged>>

-----------------------------------------------------------------------------
\* The state after CitationManager(): an empty citations directory and no
\* index file; the source files are whatever they are.
InitProgram ==
    /\ now = 0
    /\ held = NoTransient
    /\ last = [op |-> "init", id |-> "-", arg |-> "-", ret |-> "-", raised |-> FALSE,
               rep |-> FALSE]
    /\ unchanged = {}
    /\ steps = 0
    /\ calls = [t \in Threads |-> Idle]

InitEnv ==
    /\ cwd \in {"store", "work"}
    /\ \E f \in {Absent, File(<<LetterA>>)} :
           fs = [loc \in Locations |-> IF loc \in Reachable(cwd) THEN f ELSE Absent]

Init ==
    /\ InitProgram
    /\ InitEnv
    /\ records = [id \in Ids |-> NoRecord]
    /\ index_exists = FALSE
    /\ index = <<>>

\* The (id, surface, path) of the search hits a transient citation is made for.
SearchHits == {<<MemId, "memory", RelPath>>, <<ChunkId, "store", AbsPath>>,
               <<ChunkId, "memory", AbsPath>>}

\* A run is cut off after MaxSteps steps.
Budget == steps < MaxSteps

Next ==
    \/ \E hit \in SearchHits, quote \in Quotes :
           Budget /\ CreateTransientCitation(hit[1], hit[2], hit[3], quote,
                                             CharLoc(0, Len(quote)))
    \/ \E rc \in RetentionClasses : Budget /\ MakeCitation(rc, NoTags)
    \/ \E id \in AskedIds, rc \in RetentionClasses, rows \in Rows :
           Budget /\ MakeCitationFromId(id, rc, NoTags, rows)
    \/ \E id \in AskedIds, rows \in Rows : Budget /\ VerifyCitation(id, rows)
    \/ \E id \in AskedIds, rows \in Rows : Budget /\ OpenCitation(id, rows)
    \/ \E status \in {"any", "verified", "stale", "orphan"} :
           Budget /\ ListCitations(status)
    \/ \E dry \in BOOLEAN : Budget /\ GcCitations(dry)
    \/ \E loc \in Reachable(cwd), bytes \in Contents : Budget /\ WriteFile(loc, bytes)
    \/ \E loc \in Reachable(cwd) : Budget /\ DeleteFile(loc)
    \/ \E t \in Instants : Budget /\ Tick(t)

\* Sequential execution from the empty store.
Spec == Init /\ [][Next]_vars

\* Sequential execution in which a call may be cut short.
NextCrash ==
    \/ Next
    \/ \E id \in Ids, rc \in RetentionClasses, rows \in Rows :
           Budget /\ MakeCitationInterrupted(id, rc, rows)
    \/ \E k \in 1..MaxIndexLines : Budget /\ GcInterrupted(k)

SpecCrash == Init /\ [][NextCrash]_vars

\* The sweep alone, on any content of the index file and the record
\* directory: lines of every kind, records the program wrote at time 0,
\* unreadable records and records edited by hand.
FixtureRecord(id, rc) ==
    PersistedCitation(id, "doc", AbsPath, Unknown, CharLoc(0, 1), <<LetterA>>,
                      NoContext, rc, NoTags, 0)

FixtureLines ==
    {JunkLine, NonObjLine, NoIdLine} \cup {IndexEntry(FixtureRecord(id, "standard")) : id \in Ids}

FixtureRecords(id) ==
    {NoRecord, CorruptRecord}
        \cup {FixtureRecord(id, rc) : rc \in RetentionClasses}
        \cup {[FixtureRecord(id, "pinned") EXCEPT !.keep = FALSE],
              [FixtureRecord(id, "temp") EXCEPT !.keep = TRUE],
              [FixtureRecord(id, "temp") EXCEPT !.ttl_seconds = 0]}

RECURSIVE LinesUpTo(_)
LinesUpTo(n) ==
    IF n = 0 THEN {<<>>}
    ELSE LET shorter == LinesUpTo(n - 1)
         IN shorter \cup {Append(s, l) : s \in {x \in shorter : Len(x) = n - 1},
                                         l \in FixtureLines}

InitFixture ==
    /\ InitProgram
    /\ cwd = "store"
    /\ fs = [loc \in Locations |-> Absent]
    /\ records \in [Ids -> UNION {FixtureRecords(id) : id \in Ids}]
    /\ \A id \in Ids : records[id] \in FixtureRecords(id)
    /\ index_exists \in BOOLEAN
    /\ index \in LinesUpTo(MaxIndexLines)
    /\ ~index_exists => index = <<>>

NextGc ==
    \/ \E dry \in BOOLEAN : Budget /\ GcCitations(dry)
    \/ \E t \in Instants : Budget /\ Tick(t)

SpecGc == InitFixture /\ [][NextGc]_vars

\* The end-to-end scenario: a source file exists under an absolute path; a
\* transient citation over it is created, promoted as temp and opened; a byte
\* is appended to the file; the citation is verified; its created_at is set to
\* two hours ago; the sweep runs.
InitE2E ==
    /\ InitProgram
    /\ cwd \in {"store", "work"}
    /\ \E bytes \in Contents :
           fs = [loc \in Locations |-> IF loc = LocAbs THEN File(bytes) ELSE Absent]
    /\ records = [id \in Ids |-> NoRecord]
    /\ index_exists = FALSE
    /\ index = <<>>

NextE2E ==
    \/ \E hit \in {h \in SearchHits : h[3] = AbsPath}, quote \in Quotes :
           steps = 0 /\ CreateTransientCitation(hit[1], hit[2], hit[3], quote,
                                                CharLoc(0, Len(quote)))
    \/ steps = 1 /\ MakeCitation("temp", NoTags)
    \/ \E rows \in Rows : steps = 2 /\ OpenCitation(held.id, rows)
    \/ \E b \in Bytes : steps = 3 /\ AppendByte(LocAbs, b)
    \/ \E rows \in Rows : steps = 4 /\ VerifyCitation(held.id, rows)
    \/ steps = 5 /\ FabricateCreatedAt(held.id, TwoHours)
    \/ steps = 6 /\ GcCitations(FALSE)
    \/ \E t \in Instants : TickBetween(t)

SpecE2E == InitE2E /\ [][NextE2E]_vars

\* Promotions alone, repeated over time.
MaxPromoteSteps == 4

NextPromote ==
    \/ \E hit \in SearchHits, quote \in Quotes :
           steps < MaxPromoteSteps
               /\ CreateTransientCitation(hit[1], hit[2], hit[3], quote,
                                          CharLoc(0, Len(quote)))
    \/ \E rc \in RetentionClasses : steps < MaxPromoteSteps /\ MakeCitation(rc, NoTags)
    \/ \E id \in Ids, rc \in RetentionClasses, rows \in Rows :
           steps < MaxPromoteSteps /\ MakeCitationFromId(id, rc, NoTags, rows)
    \/ \E t \in Instants : steps < MaxPromoteSteps /\ Tick(t)

SpecPromote == Init /\ [][NextPromote]_vars

\* Promotions by id alone, over source files that change.
MaxFromIdSteps == 2

NextFromId ==
    \/ \E id \in AskedIds, rc \in RetentionClasses, rows \in Rows :
           steps < MaxFromIdSteps /\ MakeCitationFromId(id, rc, NoTags, rows)
    \/ \E loc \in Reachable(cwd), bytes \in Contents :
           steps < MaxFromIdSteps /\ WriteFile(loc, bytes)

SpecFromId == Init /\ [][NextFromId]_vars

\* A source path becomes unreadable.
MakeUnreadable(loc) ==
    /\ fs[loc] # Unreadable
    /\ fs' = [fs EXCEPT ![loc] = Unreadable]
    /\ last' = EnvResult
    /\ unchanged' = {}
    /\ steps' = steps + 1
    /\ calls' = calls
    /\ UNCHANGED <<now, cwd, held, records, index_exists, index>>

\* Calls in an environment that fails: sources that exist and cannot be read,
\* and a collaborator that raises.
MaxFaultSteps == 3

InitFaults ==
    /\ InitProgram
    /\ cwd \in {"store", "work"}
    /\ fs \in [Locations -> {Absent, File(<<LetterA>>), Unreadable}]
    /\ \A loc \in Locations \ Reachable(cwd) : fs[loc] = Absent
    /\ records = [id \in Ids |-> NoRecord]
    /\ index_exists = FALSE
    /\ index = <<>>

NextFaults ==
    \/ \E hit \in SearchHits, quote \in Quotes :
           steps < MaxFaultSteps
               /\ CreateTransientCitation(hit[1], hit[2], hit[3], quote,
                                          CharLoc(0, Len(quote)))
    \/ steps < MaxFaultSteps /\ MakeCitation("standard", NoTags)
    \/ \E id \in AskedIds, rows \in AnyAnswer :
           steps < MaxFaultSteps /\ MakeCitationFromId(id, "standard", NoTags, rows)
    \/ \E id \in AskedIds, rows \in AnyAnswer :
           steps < MaxFaultSteps /\ VerifyCitation(id, rows)
    \/ \E id \in AskedIds, rows \in AnyAnswer :
           steps < MaxFaultSteps /\ OpenCitation(id, rows)
    \/ \E loc \in Reachable(cwd) : steps < MaxFaultSteps /\ MakeUnreadable(loc)

SpecFaults == InitFaults /\ [][NextFaults]_vars

\* A stored record is serialized, its items reordered, and loaded again.
RoundTrip(id, order) ==
    /\ RecordFile(id) = "ok"
    /\ last' = Result("round_trip", id, order,
                      FromDict(Reorder(ToDict(records[id]), order)), FALSE)
    /\ steps' = steps + 1
    /\ calls' = calls
    /\ UNCHANGED <<now, fs, cwd, held, records, index_exists, index, unchanged>>

MaxRoundTripSteps == 3

NextRoundTrip ==
    \/ \E id \in Ids, rc \in RetentionClasses, rows \in Rows :
           steps < MaxRoundTripSteps /\ MakeCitationFromId(id, rc, NoTags, rows)
    \/ \E id \in Ids, rows \in Rows :
           steps < MaxRoundTripSteps /\ VerifyCitation(id, rows)
    \/ \E t \in Instants : steps < MaxRoundTripSteps /\ Tick(t)
    \/ \E id \in Ids, order \in KeyOrders :
           steps < MaxRoundTripSteps /\ RoundTrip(id, order)

SpecRoundTrip == Init /\ [][NextRoundTrip]_vars

\* Two callers of make_citation at once, after sequential promotions.
MaxWriterSteps == 2

InitThreads ==
    /\ InitProgram
    /\ cwd = "store"
    /\ fs = [loc \in Locations |-> Absent]
    /\ records = [id \in Ids |-> NoRecord]
    /\ index_exists = FALSE
    /\ index = <<>>

NextWriters ==
    \/ \E id \in Ids, rc \in RetentionClasses :
           steps < MaxWriterSteps /\ AllIdle
               /\ MakeCitationFromId(id, rc, NoTags, FoundRow)
    \/ \E t \in Instants : steps < MaxWriterSteps /\ Tick(t)
    \/ \E t \in Threads, id \in Ids, rc \in RetentionClasses : BeginMake(t, id, rc)
    \/ \E t \in Threads : WriteRecord(t)
    \/ \E t \in Threads : IndexRead(t)
    \/ \E t \in Threads : IndexRewrite(t)

SpecWriters == InitThreads /\ [][NextWriters]_vars

\* A real sweep by one caller while another opens or verifies a citation,
\* after sequential promotions.
MaxSweepSteps == 2

NextSweep ==
    \/ \E id \in Ids, rc \in RetentionClasses :
           steps < MaxSweepSteps /\ AllIdle
               /\ MakeCitationFromId(id, rc, NoTags, FoundRow)
    \/ \E t \in Instants : steps < MaxSweepSteps /\ Tick(t)
    \/ BeginGc(1)
    \/ GcReadIndex(1)
    \/ GcCheckExists(1)
    \/ GcLoadRecord(1)
    \/ GcUnlink(1)
    \/ GcRewriteIndex(1)
    \/ \E op \in {"open", "verify"}, id \in Ids : BeginLookup(2, op, id)
    \/ \E rows \in Rows : LookExists(2, rows)
    \/ LoadRecord(2)
    \/ WriteRecord(2)
    \/ IndexRead(2)
    \/ IndexRewrite(2)

SpecSweep == InitThreads /\ [][NextSweep]_vars

\* Verifications of records stored earlier, in any status, over source files
\* that change.
MaxReverifySteps == 2

\* A record promoted at time 0 and left in status by an earlier verification;
\* its one tag names that status.
StoredRecord(id, sha, status) ==
    [PersistedCitation(id, IF StartsWithM(id) THEN "memory" ELSE "chunk",
                       IF StartsWithM(id) THEN RelPath ELSE AbsPath, sha,
                       CharLoc(0, 1), <<LetterA>>, NoContext,
                       "standard", <<status>>, 0)
        EXCEPT !.status = status]

StoredRecords(id) ==
    {NoRecord}
        \cup {StoredRecord(id, Unknown, status) : status \in {"verified", "orphan"}}
        \cup {StoredRecord(id, Sha256(<<LetterA>>), status) :
                  status \in {"verified", "stale", "orphan"}}

SourceContents == {<<LetterA>>, <<LF>>}

RECURSIVE EntriesFor(_, _)
EntriesFor(recs, ids) ==
    IF ids = <<>> THEN <<>>
    ELSE IF recs[Head(ids)].file = "ok"
         THEN <<IndexEntry(recs[Head(ids)])>> \o EntriesFor(recs, Tail(ids))
         ELSE EntriesFor(recs, Tail(ids))

InitStored ==
    /\ InitProgram
    /\ cwd = "store"
    /\ fs \in [Locations -> {Absent} \cup {File(b) : b \in SourceContents}]
    /\ \A loc \in Locations \ Reachable(cwd) : fs[loc] = Absent
    /\ records \in [Ids -> UNION {StoredRecords(id) : id \in Ids}]
    /\ \A id \in Ids : records[id] \in StoredRecords(id)
    /\ index_exists = TRUE
    /\ index = EntriesFor(records, <<MemId, ChunkId>>)

NextReverify ==
    \/ \E id \in Ids : steps < MaxReverifySteps /\ VerifyCitation(id, FoundRow)
    \/ \E loc \in Reachable(cwd), bytes \in SourceContents :
           steps < MaxReverifySteps /\ WriteFile(loc, bytes)
    \/ \E loc \in Reachable(cwd) : steps < MaxReverifySteps /\ DeleteFile(loc)
    \/ \E t \in Instants : steps < MaxReverifySteps /\ Tick(t)

SpecReverify == InitStored /\ [][NextReverify]_vars

\* The type of the PersistedCitation built from transient citations of every
\* surface and id shape.
MaxTypeSteps == 2

TypeIds == {MemId, ChunkId, BadId, MemHashId}

\* make_citation up to the PersistedCitation it builds from the held
\* transient citation: the type of that citation.
TypeOfHeld(rc) ==
    /\ held # NoTransient
    /\ last' = Result("cite_type", held.id, held.surface,
                      Promote(held, rc, NoTags, now).type, FALSE)
    /\ steps' = steps + 1
    /\ UNCHANGED <<now, fs, cwd, held, records, index_exists, index, unchanged, calls>>

\* make_citation_from_id up to the PersistedCitation it builds for an id the
\* collaborator has: the type of that citation.
TypeFromId(id, rc) ==
    /\ FromIdFound(id, FoundRow)
    /\ last' = Result("from_id_type", id, rc,
                      Promote(FromIdTransient(id, FoundRow), rc, NoTags, now).type,
                      FALSE)
    /\ steps' = steps + 1
    /\ UNCHANGED <<now, fs, cwd, held, records, index_exists, index, unchanged, calls>>

NextType ==
    \/ \E hit \in TypeIds \X {"memory", "store"} \X Paths, quote \in Quotes :
           steps < MaxTypeSteps
               /\ CreateTransientCitation(hit[1], hit[2], hit[3], quote,
                                          CharLoc(0, Len(quote)))
    \/ \E rc \in RetentionClasses : steps < MaxTypeSteps /\ TypeOfHeld(rc)
    \/ \E id \in TypeIds, rc \in RetentionClasses :
           steps < MaxTypeSteps /\ TypeFromId(id, rc)

SpecType == Init /\ [][NextType]_vars

\* Promotions, accesses, verifications and real sweeps of one id over time.
MaxExpirySteps == 4

NextExpiry ==
    \/ \E rc \in RetentionClasses :
           steps < MaxExpirySteps /\ MakeCitationFromId(MemId, rc, NoTags, FoundRow)
    \/ steps < MaxExpirySteps /\ OpenCitation(MemId, FoundRow)
    \/ steps < MaxExpirySteps /\ VerifyCitation(MemId, FoundRow)
    \/ steps < MaxExpirySteps /\ GcCitations(FALSE)
    \/ \E t \in Instants : steps < MaxExpirySteps /\ Tick(t)

SpecExpiry == InitThreads /\ [][NextExpiry]_vars

\* Time that keeps advancing and a real sweep that is run again and again,
\* after at most MaxLiveSteps promotions and accesses. The clock runs up to
\* Horizon, later than the expiry of any record promoted before it; the
\* sweeps and the clock are not counted as steps.
MaxLiveSteps == 2

Horizon == TtlDurable + MaxJitter + TtlStandard + 1

SweepAgain ==
    /\ LET r == GcSweep(index_exists, index, records, now, FALSE)
       IN /\ records' = r.recs
          /\ index' = r.lines
          /\ last' = Result("gc", "-", FALSE, r.stats, r.raised)
          /\ unchanged' = {x \in unchanged : x = "held" \/ r.recs[x].file # "none"}
    /\ UNCHANGED <<now, fs, cwd, held, index_exists, steps, calls>>

TimePasses == \E t \in Instants \cup {Horizon} : TickBetween(t)

NextLive ==
    \/ \E id \in Ids, rc \in RetentionClasses :
           steps < MaxLiveSteps /\ now < Horizon
               /\ MakeCitationFromId(id, rc, NoTags, FoundRow)
    \/ \E id \in Ids : steps < MaxLiveSteps /\ OpenCitation(id, FoundRow)
    \/ TimePasses
    \/ SweepAgain

SpecLive ==
    /\ InitThreads
    /\ [][NextLive]_vars
    /\ WF_vars(TimePasses)
    /\ WF_vars(SweepAgain)

\* One call on any content of the index file and the record directory.
NextAnyStore ==
    \/ \E id \in AskedIds, rc \in RetentionClasses, rows \in Rows :
           steps = 0 /\ MakeCitationFromId(id, rc, NoTags, rows)
    \/ \E id \in AskedIds, rows \in Rows : steps = 0 /\ VerifyCitation(id, rows)
    \/ \E id \in AskedIds, rows \in Rows : steps = 0 /\ OpenCitation(id, rows)
    \/ \E status \in {"any", "verified", "stale", "orphan"} :
           steps = 0 /\ ListCitations(status)
    \/ \E dry \in BOOLEAN : steps = 0 /\ GcCitations(dry)

SpecAnyStore == InitFixture /\ [][NextAnyStore]_vars

-----------------------------------------------------------------------------
\* Properties.

\* A step that is one call of operation op on id (the clock stands still
\* during a call).
OpStep(op, id) ==
    steps' = steps + 1 /\ now' = now /\ last'.op = op /\ last'.id = id

\* The index entries of id, and of the other ids, in file order.
EntriesOf(lines, id) == SelectSeq(lines, LAMBDA l : l.kind = "entry" /\ l.id = id)
OthersOf(lines, id) == SelectSeq(lines, LAMBDA l : l.kind = "entry" /\ l.id # id)

\* C1: verifying a persisted citation whose recorded hash is a digest returns
\* false and sets status stale when the source file exists with bytes of
\* another digest, and returns false and sets status orphan when the source
\* file does not exist.
C1_HashSensitivity ==
    [][\A id \in Ids :
        (OpStep("verify", id) /\ records[id].file = "ok" /\ records[id].sha256 # Unknown)
        => LET at == StoreResolve(records[id].path)
           IN /\ (Exists(fs, at) /\ Sha256(ReadBytes(fs, at)) # records[id].sha256)
                    => (last'.ret = FALSE /\ records'[id].status = "stale")
              /\ ~Exists(fs, at)
                    => (last'.ret = FALSE /\ records'[id].status = "orphan")]_vars

C1_Witness ==
    \E id \in Ids :
        /\ last.op = "verify" /\ last.id = id /\ last.ret = FALSE
        /\ records[id].file = "ok" /\ records[id].sha256 # Unknown
        /\ records[id].status = "stale"
        /\ Exists(fs, StoreResolve(records[id].path))

\* C2: a record file disappears only in a gc_citations(dry_run=False) call, and
\* only if at that time its citation has keep false, a retention class other
\* than pinned, ttl_seconds > 0 and an age strictly above ttl_seconds.
C2_OnlySweepDeletes ==
    [][\A id \in Ids :
        (records[id].file # "none" /\ records'[id].file = "none")
        => /\ OpStep("gc", "-") /\ last'.arg = FALSE
           /\ records[id].file = "ok"
           /\ ~records[id].keep
           /\ records[id].retention_class # "pinned"
           /\ records[id].ttl_seconds > 0
           /\ now - records[id].created_at > records[id].ttl_seconds]_vars

C2_Witness ==
    \E id \in Ids :
        /\ last.op = "gc" /\ last.arg = FALSE /\ ~last.raised
        /\ records[id].file = "ok" /\ records[id].keep
        /\ records[id].ttl_seconds > 0
        /\ now - records[id].created_at > records[id].ttl_seconds

\* C3: gc_citations(dry_run=False) deletes the record file of every indexed
\* temp or standard citation older than its ttl_seconds, removes its index
\* entry and counts it as expired; it leaves the record file and the index
\* entry of every indexed durable or pinned citation alone, whatever its age,
\* and counts it as kept.
C3_TtlMonotonicity ==
    [][(OpStep("gc", "-") /\ last'.arg = FALSE /\ ~last'.raised)
        => LET indexed == {id \in Ids : records[id].file = "ok"
                                        /\ Len(EntriesOf(index, id)) > 0}
               aged == {id \in indexed :
                           /\ records[id].retention_class \in {"temp", "standard"}
                           /\ now - records[id].created_at > records[id].ttl_seconds}
               shielded == {id \in indexed :
                               records[id].retention_class \in {"durable", "pinned"}}
           IN /\ \A id \in aged :
                    records'[id] = NoRecord /\ EntriesOf(index', id) = <<>>
              /\ \A id \in shielded :
                    /\ records'[id] = records[id]
                    /\ EntriesOf(index', id) = EntriesOf(index, id)
              /\ last'.ret.expired = Cardinality(aged)
              /\ last'.ret.kept = Cardinality(indexed \ aged)]_vars

C3_Witness ==
    /\ last.op = "gc" /\ last.arg = FALSE /\ ~last.raised
    /\ last.ret.expired = 1
    /\ index_exists /\ index = <<>>
    /\ \A id \in Ids : records[id] = NoRecord

\* C4: in sequential execution from an empty index the index holds at most
\* one entry per id, and after a promotion the one entry of the promoted id
\* carries the retention class and the created_at of that promotion.
C4_IndexDedup ==
    /\ \A id \in Ids : Len(EntriesOf(index, id)) <= 1
    /\ (last.op = "make" /\ ~last.raised)
       => LET e == EntriesOf(index, last.id)
          IN /\ Len(e) = 1
             /\ e[1].retention_class = last.arg
             /\ records[last.id].retention_class = last.arg
             /\ e[1].created_at = records[last.id].created_at

C4_Witness ==
    /\ last.op = "make" /\ last.rep /\ ~last.raised
    /\ now > 0
    /\ records[last.id].created_at = now
    /\ Len(EntriesOf(index, last.id)) = 1

\* C5: after a call was cut short between its record-file step and its index
\* rewrite, a completed gc_citations(dry_run=False) leaves every record file
\* with an index entry of its id and every index entry with a record file.
C5_ConsistentAfterSweep ==
    (last.op = "gc" /\ last.arg = FALSE /\ ~last.raised)
    => \A id \in Ids : (records[id].file # "none") <=> (Len(EntriesOf(index, id)) > 0)

C5_Witness ==
    /\ last.op = "gc" /\ last.arg = FALSE /\ ~last.raised
    /\ \E id \in Ids : records[id].file = "ok" /\ EntriesOf(index, id) = <<>>

\* C6: on any index file and record directory, gc_citations(dry_run=True)
\* returns the counts gc_citations(dry_run=False) returns at the same time,
\* and leaves the index file and every record file as they are.
C6_DryRunPurity ==
    LET d == GcSweep(index_exists, index, records, now, TRUE)
        r == GcSweep(index_exists, index, records, now, FALSE)
    IN /\ d.raised = r.raised
       /\ ~d.raised => d.stats = r.stats
       /\ d.recs = records
       /\ d.lines = index

C6_Witness ==
    LET d == GcSweep(index_exists, index, records, now, TRUE)
        r == GcSweep(index_exists, index, records, now, FALSE)
    IN /\ ~d.raised /\ ~r.raised
       /\ d.stats.expired > r.stats.expired
       /\ d.stats.orphaned < r.stats.orphaned

\* C7: a call of make_citation, make_citation_from_id, open_citation or
\* verify_citation on id x leaves the record file of every other id as it is
\* and keeps the index entries of the other ids, with the same content.
C7_SingleCitationFrame ==
    [][\A x \in AskedIds :
        (steps' = steps + 1 /\ now' = now
            /\ last'.op \in {"make", "open", "verify"} /\ last'.id = x)
        => /\ \A y \in Ids \ {x} : records'[y] = records[y]
           /\ OthersOf(index', x) = OthersOf(index, x)]_vars

C7_Witness ==
    \E y \in Ids :
        /\ last.op = "make" /\ ~last.raised /\ last.id # y
        /\ records[y].file = "ok"
        /\ Len(EntriesOf(index, y)) = 1

\* C8: in the end-to-end scenario open_citation returns status verified and
\* the quote of the transient citation; after a byte is appended to the file
\* verify_citation returns false and the stored status is stale; after
\* created_at is set to two hours ago gc_citations() returns
\* {expired: 1, orphaned: 0, kept: 0} and the record file is gone.
C8_EndToEnd ==
    /\ steps = 3 => /\ last.op = "open"
                    /\ last.ret # PyNone
                    /\ last.ret.status = "verified"
                    /\ last.ret.quote = held.quote
    /\ steps = 5 => /\ last.op = "verify"
                    /\ last.ret = FALSE
                    /\ records[held.id].status = "stale"
    /\ steps = 7 => /\ last.op = "gc"
                    /\ last.ret = [expired |-> 1, orphaned |-> 0, kept |-> 0]
                    /\ records[held.id] = NoRecord

C8_Witness ==
    /\ steps = 7 /\ last.op = "gc"
    /\ records[held.id] = NoRecord

\* C9: verifying a persisted citation whose hash was computed from its source
\* and whose source has not changed since returns true and leaves status
\* verified, on a first call and on a call that follows it, and
\* last_verified_at does not decrease.
C9_VerifyTwice ==
    [][\A id \in Ids :
        (OpStep("verify", id) /\ records[id].file = "ok"
            /\ records[id].sha256 # Unknown /\ id \in unchanged)
        => /\ last'.ret = TRUE
           /\ records'[id].status = "verified"
           /\ records'[id].last_verified_at >= records[id].last_verified_at]_vars

C9_Witness ==
    \E id \in Ids :
        /\ last.op = "verify" /\ last.id = id /\ last.ret = FALSE
        /\ id \in unchanged
        /\ records[id].file = "ok" /\ records[id].sha256 # Unknown
        /\ records[id].status = "stale"

\* C10: verifying a persisted citation whose content hash is the sentinel
\* "unknown" never yields status stale: the status is verified when the
\* resolved path exists and orphan when it does not.
C10_SentinelNeverStale ==
    [][\A id \in Ids :
        (OpStep("verify", id) /\ records[id].file = "ok" /\ records[id].sha256 = Unknown)
        => /\ records'[id].status # "stale"
           /\ records'[id].status =
                 IF Exists(fs, StoreResolve(records[id].path)) THEN "verified" ELSE "orphan"
           /\ last'.ret = Exists(fs, StoreResolve(records[id].path))]_vars

C10_Witness ==
    \E id \in Ids :
        /\ last.op = "verify" /\ last.id = id /\ last.ret = TRUE
        /\ records[id].file = "ok" /\ records[id].sha256 = Unknown
        /\ records[id].status = "verified"
        /\ Exists(fs, StoreResolve(records[id].path))
        /\ ReadBytes(fs, StoreResolve(records[id].path)) # <<>>

\* A record and an index line with their timestamp values blanked.
Untimed(c) ==
    IF c.file # "ok" THEN c
    ELSE [c EXCEPT !.created_at = 0, !.last_accessed_at = 0, !.last_verified_at = 0,
                   !.history = [i \in DOMAIN c.history |-> [c.history[i] EXCEPT !.at = 0]]]
UntimedLine(l) ==
    IF l.kind # "entry" THEN l ELSE [l EXCEPT !.created_at = 0, !.last_accessed_at = 0]
UntimedStore(recs, lines) ==
    <<[id \in Ids |-> Untimed(recs[id])], [i \in DOMAIN lines |-> UntimedLine(lines[i])]>>

\* C11: make_citation(t, retention_class, tags) writes the record file of t.id
\* and no other, with the id, path, hash, location, quote and context of t, the
\* three timestamps equal to the time of the call, status verified, rev 1 and
\* a history of one created event; the index then holds one entry for t.id,
\* that of the new record, the entries of the other ids are kept, and t.id is
\* returned.
C11_PromoteWrites ==
    [][(/\ steps' = steps + 1 /\ last'.op = "make"
        /\ held # NoTransient /\ MakeCitation(last'.arg, NoTags))
        => LET c == records'[held.id]
           IN /\ c.file = "ok"
              /\ c.id = held.id /\ c.path = held.path /\ c.sha256 = held.sha256
              /\ c.loc = held.loc /\ c.quote = held.quote /\ c.context = held.context
              /\ c.created_at = now /\ c.last_accessed_at = now
              /\ c.last_verified_at = now
              /\ c.status = "verified" /\ c.rev = 1
              /\ c.history = <<[at |-> now, event |-> "created"]>>
              /\ c.retention_class = last'.arg /\ c.tags = NoTags
              /\ \A y \in Ids \ {held.id} : records'[y] = records[y]
              /\ EntriesOf(index', held.id) = <<IndexEntry(c)>>
              /\ OthersOf(index', held.id) = OthersOf(index, held.id)
              /\ last'.ret = held.id /\ ~last'.raised]_vars

C11_Witness ==
    /\ held # NoTransient /\ held.sha256 # Unknown
    /\ last.op = "make" /\ last.id = held.id /\ ~last.raised /\ ~last.rep
    /\ now > 0
    /\ records[held.id] = Promote(held, last.arg, NoTags, now)
    /\ EntriesOf(index, held.id) = <<IndexEntry(records[held.id])>>

\* C12: make_citation called again with the same transient citation, retention
\* class and tags, with no other operation since the first call, leaves every
\* record file and the index as the first call left them, apart from the
\* timestamp values, which are those of the second call.
C12_PromoteTwice ==
    [][(/\ steps' = steps + 1 /\ last'.op = "make"
        /\ held # NoTransient
        /\ last.op = "make" /\ last.id = held.id /\ last.arg = last'.arg
        /\ ~last.raised
        /\ records[held.id].file = "ok"
        /\ records[held.id] = Promote(held, last.arg, NoTags, records[held.id].created_at)
        /\ MakeCitation(last.arg, NoTags))
        => /\ UntimedStore(records', index') = UntimedStore(records, index)
           /\ index_exists' = index_exists
           /\ records'[held.id].created_at = now
           /\ ~last'.raised]_vars

C12_Witness ==
    /\ held # NoTransient
    /\ last.op = "make" /\ last.id = held.id /\ last.rep /\ ~last.raised
    /\ now > 0
    /\ records[held.id] = Promote(held, last.arg, NoTags, now)
    /\ index = <<IndexEntry(records[held.id])>>

\* C13: verify_citation on an id with a record file returns what
\* PersistedCitation.verify returns on the loaded record, and afterwards the
\* stored record has the status verify computed and the index has an entry of
\* the id, every entry of the id carrying that status.
C13_VerifyById ==
    [][\A id \in Ids :
        (OpStep("verify", id) /\ records[id].file = "ok")
        => LET st == VerifyStatus(records[id], fs)
               es == EntriesOf(index', id)
           IN /\ last'.ret = VerifyResult(records[id], fs)
              /\ ~last'.raised
              /\ records'[id].file = "ok"
              /\ records'[id].status = st
              /\ Len(es) > 0
              /\ \A i \in 1..Len(es) : es[i].status = st]_vars

C13_Witness ==
    \E id \in Ids :
        /\ last.op = "verify" /\ last.id = id /\ last.ret = FALSE
        /\ records[id].file = "ok" /\ records[id].status = "orphan"
        /\ Len(EntriesOf(index, id)) = 1
        /\ EntriesOf(index, id)[1].status = "orphan"

\* C14: open_citation on an id with a record file sets last_accessed_at to the
\* time of the call and changes no other field of the stored record, returns
\* the record as stored, and last_accessed_at does not decrease.
C14_OpenTouchesAccess ==
    [][\A id \in Ids :
        (OpStep("open", id) /\ records[id].file = "ok")
        => /\ records'[id] = [records[id] EXCEPT !.last_accessed_at = now]
           /\ last'.ret = records'[id]
           /\ ~last'.raised
           /\ records'[id].last_accessed_at >= records[id].last_accessed_at]_vars

C14_Witness ==
    \E id \in Ids :
        /\ last.op = "open" /\ last.id = id
        /\ records[id].file = "ok"
        /\ last.ret = records[id]
        /\ records[id].last_accessed_at = now
        /\ records[id].last_accessed_at > records[id].created_at

\* C15: open_citation on an id with a record file runs the verification, so
\* that the status returned and stored is the one the source file gives now:
\* stale when its bytes changed, orphan when it is missing.
C15_OpenRefreshesStatus ==
    [][\A id \in Ids :
        (OpStep("open", id) /\ records[id].file = "ok")
        => LET st == VerifyStatus(records[id], fs)
           IN /\ last'.ret # PyNone
              /\ last'.ret.status = st
              /\ records'[id].status = st]_vars

C15_Witness ==
    \E id \in Ids :
        /\ last.op = "open" /\ last.id = id
        /\ records[id].file = "ok" /\ last.ret = records[id]
        /\ records[id].status = "verified" /\ records[id].sha256 # Unknown
        /\ VerifyStatus(records[id], fs) = "stale"

\* C16: open_citation on an id without record file returns a view with status
\* transient when the collaborator has a memory note or a chunk of that id and
\* None when it has not; no record file is created and the index file is left
\* as it is.
C16_OpenTransient ==
    [][(steps' = steps + 1 /\ last'.op = "open" /\ RecordFile(last'.id) = "none")
        => \A rows \in Rows :
              OpenCitation(last'.id, rows)
              => /\ IF last'.id \in Ids /\ rows.found
                    THEN /\ last'.ret # PyNone
                         /\ last'.ret.status = "transient"
                         /\ last'.ret.id = last'.id
                    ELSE last'.ret = PyNone
                 /\ ~last'.raised
                 /\ records' = records
                 /\ index_exists' = index_exists /\ index' = index]_vars

C16_Witness ==
    /\ last.op = "open" /\ last.id \in Ids
    /\ last.ret # PyNone /\ last.ret.status = "transient"
    /\ records[last.id] = NoRecord
    /\ Len(EntriesOf(index, last.id)) = 0

\* C17: verify_citation on an id without record file returns true exactly when
\* the collaborator has a memory note or a chunk of that id, whatever the
\* source file holds, and writes neither a record file nor the index.
C17_VerifyTransient ==
    [][(steps' = steps + 1 /\ last'.op = "verify" /\ RecordFile(last'.id) = "none")
        => \A rows \in Rows :
              VerifyCitation(last'.id, rows)
              => /\ last'.ret = (last'.id \in Ids /\ rows.found)
                 /\ ~last'.raised
                 /\ records' = records
                 /\ index_exists' = index_exists /\ index' = index]_vars

C17_Witness ==
    /\ last.op = "verify" /\ last.id = MemId /\ last.ret = TRUE
    /\ records[MemId] = NoRecord
    /\ ~Exists(fs, StoreResolve(RelPath))
    /\ Len(EntriesOf(index, MemId)) = 0

C19_MalformedSkipped ==
    /\ (last.op = "make" /\ last.raised) => last.ret = FromIdError(last.id)
    /\ last.op \in {"verify", "list", "gc"} => ~last.raised
    /\ (\/ last.op = "make" /\ ~last.raised
        \/ last.op = "gc" /\ ~last.raised /\ last.arg = FALSE /\ index_exists)
       => \A i \in 1..Len(index) : index[i].kind = "entry"

C19_Witness ==
    /\ last.op = "list" /\ last.raised
    /\ HasNonObj(index)

\* C20: with a record file that does not load, open_citation and
\* verify_citation give what they give for an id without record file (the
\* transient view or None, and whether the collaborator has the id), and
\* gc_citations counts every index entry of such an id as orphaned.
C20_UnreadableAsAbsent ==
    [][/\ \A id \in Ids, rows \in Rows :
            records[id].file = "corrupt"
            => /\ OpenCitation(id, rows)
                  => last'.ret = IF rows.found THEN TransientView(id) ELSE PyNone
               /\ VerifyCitation(id, rows) => last'.ret = rows.found
       /\ (OpStep("gc", "-") /\ ~last'.raised /\ index_exists)
          => last'.ret.orphaned >=
                Cardinality({i \in 1..Len(index) :
                                /\ index[i].kind = "entry"
                                /\ records[index[i].id].file = "corrupt"})]_vars

C20_Witness ==
    /\ last.op = "open" /\ last.id \in Ids
    /\ last.ret = PyNone
    /\ records[last.id].file = "corrupt"

\* Whether sequence s is a prefix of sequence t.
IsPrefix(s, t) == Len(s) <= Len(t) /\ SubSeq(t, 1, Len(s)) = s

\* C24: the rev of a persisted id starts at 1 and never decreases, and the
\* history of the id only grows: over any operation the stored history is a
\* prefix of the history stored afterwards, whose first entry is the created
\* event.
C24_HistoryAppendOnly ==
    [][\A id \in Ids :
        /\ (records[id].file = "none" /\ records'[id].file = "ok")
           => records'[id].rev = 1
        /\ (records[id].file = "ok" /\ records'[id].file = "ok")
           => /\ records'[id].rev >= records[id].rev
              /\ IsPrefix(records[id].history, records'[id].history)
              /\ records'[id].history[1].event = "created"]_vars

C24_Witness ==
    \E id \in Ids :
        /\ last.op = "make" /\ last.id = id /\ last.rep /\ ~last.raised
        /\ now > 0
        /\ records[id].rev = 1
        /\ records[id].history = <<[at |-> now, event |-> "created"]>>

\* C25: every record the program writes has the ttl_seconds and keep of its
\* retention class (temp 3600/false, standard 604800/false, durable
\* 2592000/true, pinned -1/true), so keep is true exactly for durable and
\* pinned, and open_citation and verify_citation leave retention_class,
\* ttl_seconds and keep as they are.
C25_RetentionTable ==
    [][\A id \in Ids :
        records'[id].file = "ok"
        => LET c == records'[id]
           IN /\ c.retention_class = "temp" => (c.ttl_seconds = 3600 /\ ~c.keep)
              /\ c.retention_class = "standard" => (c.ttl_seconds = 604800 /\ ~c.keep)
              /\ c.retention_class = "durable" => (c.ttl_seconds = 2592000 /\ c.keep)
              /\ c.retention_class = "pinned" => (c.ttl_seconds = 0 - 1 /\ c.keep)
              /\ c.keep <=> c.retention_class \in {"durable", "pinned"}
              /\ (/\ steps' = steps + 1 /\ last'.op \in {"open", "verify"}
                  /\ records[id].file = "ok")
                 => /\ c.retention_class = records[id].retention_class
                    /\ c.ttl_seconds = records[id].ttl_seconds
                    /\ c.keep = records[id].keep]_vars

C25_Witness ==
    \E id \in Ids :
        /\ last.op = "open" /\ last.id = id
        /\ records[id].file = "ok"
        /\ records[id].retention_class = "durable"
        /\ records[id].keep /\ records[id].ttl_seconds = 2592000
        /\ records[id].last_accessed_at > records[id].created_at

\* C27: the hash make_citation_from_id records is the SHA-256 of the exact
\* bytes of the source file: when the source exists where verification looks
\* for it, the recorded hash is the digest of its bytes and a verification
\* right after the promotion gives verified.
C27_HashOfExactBytes ==
    [][(steps' = steps + 1 /\ last'.op = "make" /\ ~last'.raised)
        => \A rows \in Rows :
              MakeCitationFromId(last'.id, last'.arg, NoTags, rows)
              => LET c == records'[last'.id]
                     at == StoreResolve(c.path)
                 IN Exists(fs, at)
                    => /\ c.sha256 = Sha256(ReadBytes(fs, at))
                       /\ VerifyStatus(c, fs) = "verified"]_vars

C27_Witness ==
    /\ last.op = "make" /\ last.id = ChunkId /\ ~last.raised
    /\ ChunkId \in unchanged
    /\ records[ChunkId].file = "ok"
    /\ records[ChunkId].sha256 # Unknown
    /\ Exists(fs, StoreResolve(records[ChunkId].path))
    /\ records[ChunkId].sha256
          # Sha256(ReadBytes(fs, StoreResolve(records[ChunkId].path)))
    /\ VerifyStatus(records[ChunkId], fs) = "stale"

\* C30: in sequential execution from the empty store, every record file has
\* exactly one index entry of its id.
C30_RecordsIndexed ==
    \A id \in Ids : records[id].file # "none" => Len(EntriesOf(index, id)) = 1

C30_Witness ==
    /\ last.op = "gc" /\ last.arg = FALSE /\ ~last.raised
    /\ last.ret.kept = 1
    /\ now = TtlTemp
    /\ \E id \in Ids :
          /\ records[id].file = "ok" /\ records[id].retention_class = "temp"
          /\ records[id].created_at = 0
          /\ Len(EntriesOf(index, id)) = 1

\* C21: create_transient_citation fails for no state of the source path: it
\* returns a transient citation whose hash is the digest of the file's bytes
\* when the file can be read, and "unknown" when the path is missing or
\* cannot be read.
C21_CreateNeverFails ==
    [][(steps' = steps + 1 /\ last'.op = "create_transient")
        => /\ ~last'.raised
           /\ held'.sha256 =
                 IF Readable(fs, CwdResolve(last'.arg, cwd))
                 THEN Sha256(ReadBytes(fs, CwdResolve(last'.arg, cwd)))
                 ELSE Unknown]_vars

C21_Witness ==
    /\ last.op = "create_transient" /\ last.raised
    /\ fs[CwdResolve(last.arg, cwd)].kind = "unreadable"

\* C22: a verification never raises: its status is one of verified, stale and
\* orphan, and when reading the source fails the status is orphan and the
\* result false.
C22_VerifyNeverRaises ==
    [][\A id \in Ids :
        (OpStep("verify", id) /\ records[id].file = "ok")
        => LET at == StoreResolve(records[id].path)
           IN /\ ~last'.raised
              /\ records'[id].status \in {"verified", "stale", "orphan"}
              /\ (Exists(fs, at) /\ ~Readable(fs, at) /\ records[id].sha256 # Unknown)
                 => (records'[id].status = "orphan" /\ last'.ret = FALSE)]_vars

C22_Witness ==
    \E id \in Ids :
        /\ last.op = "verify" /\ last.id = id /\ last.ret = FALSE
        /\ records[id].file = "ok" /\ records[id].sha256 # Unknown
        /\ records[id].status = "orphan"
        /\ fs[StoreResolve(records[id].path)].kind = "unreadable"

\* C23: when the collaborator raises, make_citation_from_id raises its own
\* ValueError, and open_citation and verify_citation on an id without record
\* file return None and false; no record file is written and the index is
\* left as it is.
C23_CollaboratorFailure ==
    [][steps' = steps + 1
        => /\ (last'.op = "make"
                  /\ MakeCitationFromId(last'.id, last'.arg, NoTags, CollaboratorRaises))
              => /\ last'.raised
                 /\ last'.ret = "ValueError: collaborator failed"
                 /\ records' = records
                 /\ index_exists' = index_exists /\ index' = index
           /\ (last'.op = "open" /\ RecordFile(last'.id) = "none"
                  /\ OpenCitation(last'.id, CollaboratorRaises))
              => /\ last'.ret = PyNone /\ ~last'.raised
                 /\ records' = records
                 /\ index_exists' = index_exists /\ index' = index
           /\ (last'.op = "verify" /\ RecordFile(last'.id) = "none"
                  /\ VerifyCitation(last'.id, CollaboratorRaises))
              => /\ last'.ret = FALSE /\ ~last'.raised
                 /\ records' = records
                 /\ index_exists' = index_exists /\ index' = index]_vars

C23_Witness ==
    /\ last.op = "make" /\ last.raised
    /\ last.ret = "ValueError: collaborator failed"
    /\ last.id \in Ids
    /\ records[last.id] = NoRecord
    /\ Len(EntriesOf(index, last.id)) = 0

\* C26: serialization round-trips: loading the dictionary to_dict builds from a
\* record gives a record with every field equal, whose own to_dict is the same
\* dictionary, in whatever order the dictionary's keys come.
C26_RoundTrip ==
    last.op = "round_trip"
    => /\ last.ret = records[last.id]
       /\ ToDict(last.ret) = ToDict(records[last.id])

C26_Witness ==
    /\ last.op = "round_trip"
    /\ last.arg = Reversal
    /\ last.ret.status = "orphan"
    /\ last.ret.keep
    /\ last.ret.ttl_seconds = TtlPinned

\* Both callers have returned from make_citation, for two distinct ids.
BothMade ==
    /\ \A t \in Threads : calls[t].op = "make" /\ Done(t)
    /\ calls[1].id # calls[2].id

\* C28 as stated: once two concurrent make_citation calls for distinct ids have
\* both completed, the index has exactly one entry of each of the two ids.
C28_NoLostUpdate ==
    BothMade => \A t \in Threads : Len(EntriesOf(index, calls[t].id)) = 1

\* C28: once two concurrent make_citation calls for distinct ids have both
\* completed, both record files are written, the index has at most one entry
\* per id and the entry of the call whose rewrite came last; the entry of the
\* other call is in the index exactly when its rewrite came before the last
\* writer's read step, and otherwise the index has of that id what it had
\* before the call.
C28_LastWriterWins ==
    BothMade
    => /\ \A id \in Ids : Len(EntriesOf(index, id)) <= 1
       /\ \A t \in Threads : records[calls[t].id] = calls[t].c
       /\ \E w \in Threads :
             LET o == Other(w)
             IN /\ last.id = calls[w].id
                /\ EntriesOf(index, calls[w].id) = <<IndexEntry(calls[w].c)>>
                /\ EntriesOf(index, calls[o].id) =
                      IF o \in calls[w].seen THEN <<IndexEntry(calls[o].c)>>
                      ELSE EntriesOf(calls[o].before, calls[o].id)

C28_Witness ==
    /\ BothMade
    /\ \E w \in Threads :
          /\ last.id = calls[w].id
          /\ calls[w].seen = {}
          /\ Len(EntriesOf(index, calls[Other(w)].id)) = 0

\* A real sweep and an open_citation or verify_citation of id x have both
\* completed, and x was indexed, stored and expired without keep when each of
\* them began.
SweptWhileRead(x) ==
    /\ calls[1].op = "gc" /\ Done(1)
    /\ calls[2].op \in {"open", "verify"} /\ Done(2) /\ calls[2].id = x
    /\ x \in calls[1].pre /\ x \in calls[2].pre

\* C29 as stated: after a real sweep and a concurrent open_citation or
\* verify_citation of an expired id without keep have both completed, the
\* record file of the id does not exist.
C29_NeverRecreated ==
    \A x \in Ids : SweptWhileRead(x) => RecordFile(x) = "none"

\* C29: after a real sweep and a concurrent open_citation or verify_citation
\* of an expired id without keep have both completed, the record file of the
\* id exists exactly when the other operation read it before the sweep's
\* unlink and wrote it back after the unlink; after open_citation the index
\* has no entry of the id, so that a re-created record file is left without
\* an index entry.
C29_RecreatedOnlyByLateWrite ==
    \A x \in Ids :
        SweptWhileRead(x)
        => /\ x \in calls[1].unlinked
           /\ (RecordFile(x) = "ok") <=> calls[2].after
           /\ calls[2].op = "open" => Len(EntriesOf(index, x)) = 0

C29_Witness ==
    \E x \in Ids :
        /\ SweptWhileRead(x)
        /\ calls[2].op = "open"
        /\ calls[2].after
        /\ RecordFile(x) = "ok"
        /\ Len(EntriesOf(index, x)) = 0

\* C31: in sequential execution, every index entry of an id that has a record
\* file carries the status stored in the record file, and list_citations with
\* a status returns one entry for each persisted citation of that status and
\* no other.
C31_IndexStatus ==
    /\ \A id \in Ids :
          records[id].file = "ok"
          => \A i \in 1..Len(EntriesOf(index, id)) :
                EntriesOf(index, id)[i].status = records[id].status
    /\ (last.op = "list" /\ ~last.raised /\ last.arg # "any")
       => LET listed == {last.ret[i].id : i \in 1..Len(last.ret)}
              stored == {id \in Ids : records[id].file = "ok"
                                      /\ records[id].status = last.arg}
          IN listed = stored /\ Len(last.ret) = Cardinality(stored)

C31_Witness ==
    /\ last.op = "list" /\ ~last.raised /\ last.arg = "orphan"
    /\ Len(last.ret) = 1
    /\ records[last.ret[1].id].status = "orphan"

\* C32: in sequential execution, every index entry of an id that has a record
\* file carries the last_accessed_at stored in the record file.
C32_IndexAccessTime ==
    \A id \in Ids :
        records[id].file = "ok"
        => \A i \in 1..Len(EntriesOf(index, id)) :
              EntriesOf(index, id)[i].last_accessed_at = records[id].last_accessed_at

C32_Witness ==
    /\ last.op = "open" /\ last.id \in Ids /\ ~last.raised
    /\ records[last.id].file = "ok"
    /\ Len(EntriesOf(index, last.id)) = 1
    /\ EntriesOf(index, last.id)[1].last_accessed_at < records[last.id].last_accessed_at

\* C36: the hash a transient citation records at creation is the hash of the
\* file PersistedCitation.verify resolves its path to: while the source files
\* are as they were at creation and that file exists, the recorded hash is the
\* digest of its bytes, and verifying the promoted citation gives verified.
C36_SameFile ==
    (held # NoTransient /\ "held" \in unchanged
        /\ Readable(fs, StoreResolve(held.path)))
    => /\ held.sha256 = Sha256(ReadBytes(fs, StoreResolve(held.path)))
       /\ (last.op = "verify" /\ last.id = held.id /\ held.id \in unchanged
              /\ records[held.id].file = "ok"
              /\ records[held.id].sha256 = held.sha256
              /\ records[held.id].path = held.path)
          => last.ret = TRUE

C36_Witness ==
    /\ held # NoTransient /\ "held" \in unchanged
    /\ cwd = "work"
    /\ held.path = RelPath
    /\ Readable(fs, StoreResolve(held.path))
    /\ ~Exists(fs, CwdResolve(held.path, cwd))
    /\ held.sha256 = Unknown

\* C33: the status verify assigns does not depend on the status stored before:
\* it is the status verify assigns to the same citation stored as verified,
\* and a citation stored as stale or orphan becomes verified, verify returning
\* true, once its source exists with the bytes of the stored hash.
C33_StatusRecovers ==
    [][\A id \in Ids :
        (OpStep("verify", id) /\ records[id].file = "ok")
        => LET at == StoreResolve(records[id].path)
           IN /\ records'[id].status
                    = Verify([records[id] EXCEPT !.status = "verified"], fs, now).status
              /\ (/\ records[id].status \in {"stale", "orphan"}
                  /\ Readable(fs, at)
                  /\ Sha256(ReadBytes(fs, at)) = records[id].sha256)
                 => (records'[id].status = "verified" /\ last'.ret = TRUE)]_vars

C33_Witness ==
    \E id \in Ids :
        /\ last.op = "verify" /\ last.id = id /\ last.ret = TRUE
        /\ records[id].file = "ok" /\ records[id].sha256 # Unknown
        /\ records[id].tags = <<"stale">>
        /\ records[id].status = "verified"
        /\ records[id].last_verified_at > 0

\* C39: verify returns true exactly when it leaves status verified; it sets
\* last_verified_at to the time of the call when it returns true and leaves it
\* as stored when it returns false; no other field of the record changes.
C39_VerifyFrame ==
    [][\A id \in Ids :
        (OpStep("verify", id) /\ records[id].file = "ok")
        => /\ (last'.ret = TRUE) <=> (records'[id].status = "verified")
           /\ records'[id].last_verified_at =
                 IF last'.ret = TRUE THEN now ELSE records[id].last_verified_at
           /\ [records'[id] EXCEPT !.status = "-", !.last_verified_at = 0]
                 = [records[id] EXCEPT !.status = "-", !.last_verified_at = 0]]_vars

C39_Witness ==
    \E id \in Ids :
        /\ last.op = "verify" /\ last.id = id /\ last.ret = FALSE
        /\ records[id].file = "ok"
        /\ records[id].status = "stale"
        /\ records[id].last_verified_at < now

\* C40: the type of a persisted citation is memory when the transient
\* citation's surface is memory, whatever its id; otherwise chunk when the id
\* contains '#'; otherwise doc. A citation made by id has type memory for an
\* id with the m- prefix and type chunk for any other id containing '#'.
C40_TypeFromSurfaceAndId ==
    /\ last.op = "cite_type"
       => last.ret = IF last.arg = "memory" THEN "memory"
                     ELSE IF last.id \in {ChunkId, MemHashId} THEN "chunk"
                     ELSE "doc"
    /\ last.op = "from_id_type"
       => last.ret = IF last.id \in {MemId, MemHashId} THEN "memory" ELSE "chunk"

C40_Witness ==
    /\ last.op = "cite_type"
    /\ last.id = ChunkId /\ last.arg = "memory"
    /\ last.ret = "memory"
    /\ held.id = ChunkId /\ held.surface = "memory"

\* C34: open_citation and verify_citation leave created_at, ttl_seconds, keep
\* and retention_class of a record as the promotion set them, and a real sweep
\* at time T removes an indexed record exactly when those fields say it is
\* expired at T, however lately it was accessed or verified.
C34_AccessKeepsExpiry ==
    [][(steps' = steps + 1 /\ now' = now)
        => /\ \A id \in Ids :
                (last'.op \in {"open", "verify"} /\ last'.id = id
                    /\ records[id].file = "ok")
                => /\ records'[id].file = "ok"
                   /\ records'[id].created_at = records[id].created_at
                   /\ records'[id].ttl_seconds = records[id].ttl_seconds
                   /\ records'[id].keep = records[id].keep
                   /\ records'[id].retention_class = records[id].retention_class
           /\ \A id \in Ids :
                (last'.op = "gc" /\ ~last'.raised /\ records[id].file = "ok"
                    /\ Len(EntriesOf(index, id)) > 0)
                => ((records'[id] = NoRecord)
                    <=> (/\ ~records[id].keep
                         /\ records[id].retention_class # "pinned"
                         /\ records[id].ttl_seconds > 0
                         /\ now - records[id].created_at > records[id].ttl_seconds))]_vars

C34_Witness ==
    /\ last.op = "open" /\ last.id = MemId /\ ~last.raised
    /\ records[MemId].file = "ok"
    /\ records[MemId].retention_class = "temp"
    /\ records[MemId].created_at = 0
    /\ records[MemId].last_accessed_at = now
    /\ now > records[MemId].created_at + records[MemId].ttl_seconds

\* The record of id is stored, not kept, and has a positive time to live.
DueRecord(id) ==
    /\ records[id].file = "ok"
    /\ ~records[id].keep /\ records[id].ttl_seconds > 0

\* C35: when time keeps advancing and the real sweep is run again and again,
\* every record with keep false and a positive time to live that is not
\* promoted again is eventually deleted, its index entry with it: after the
\* last promotion there comes a time from which no such record is stored and
\* no deleted record has an index entry.
C35_EventualExpiry ==
    <>[](\A id \in Ids :
            /\ ~DueRecord(id)
            /\ records[id] = NoRecord => EntriesOf(index, id) = <<>>)

C35_Witness ==
    /\ last.op = "gc" /\ ~last.raised /\ last.ret.expired = 1
    /\ steps = 1
    /\ now = TtlStandard + TtlDurable + MaxJitter + 1
    /\ \A id \in Ids : records[id] = NoRecord
    /\ index_exists /\ index = <<>>

\* C37: gc_citations, with dry_run true or false, counts every line of the
\* index that json.loads accepts in exactly one of expired, orphaned and kept:
\* it returns, and the three counts add up to the number of those lines.
C37_EveryEntryCounted ==
    [][(OpStep("gc", "-") /\ index_exists)
        => /\ ~last'.raised
           /\ last'.ret.expired + last'.ret.orphaned + last'.ret.kept
                 = Len(SelectSeq(index, LAMBDA l : l.kind # "junk"))]_vars

C37_Witness ==
    /\ last.op = "gc" /\ last.raised
    /\ index_exists
    /\ \E i \in 1..Len(index) : index[i].kind = "noid"
    /\ \E i \in 1..Len(index) : index[i].kind = "entry"
    /\ last.ret.expired + last.ret.orphaned + last.ret.kept < Len(index)

\* C38: after gc_citations(dry_run=False) on an existing index file, the file
\* exists and holds exactly the entries counted as kept, as they were and in
\* their order, and every entry in it has a record file; without an index file
\* the call returns zero counts, creates no file and touches no record.
C38_IndexAfterSweep ==
    [][(OpStep("gc", "-") /\ last'.arg = FALSE)
        => IF index_exists
           THEN /\ ~last'.raised
                /\ index_exists'
                /\ index' = SelectSeq(index, LAMBDA l : l.kind = "entry"
                                                       /\ records'[l.id].file = "ok")
                /\ Len(index') = last'.ret.kept
                /\ \A i \in 1..Len(index') : records'[index'[i].id].file # "none"
           ELSE /\ ~last'.raised /\ last'.ret = NoStats
                /\ ~index_exists' /\ index' = index
                /\ records' = records]_vars

C38_Witness ==
    /\ last.op = "gc" /\ last.arg = FALSE /\ last.raised
    /\ last.ret.expired = 1
    /\ \E i \in 1..Len(index) :
          /\ index[i].kind = "entry"
          /\ records[index[i].id] = NoRecord

====
